---- MODULE Spec2Model ----
(***************************************************************************)
(* Tiered code-issue detection and retrieval-augmented suggestion engine   *)
(* of the Rails migration assistant (src/src/analyzer/hybrid_analyzer.py,  *)
(* src/src/analyzer/code_parser.py, src/src/retriever/retriever.py).       *)
(*                                                                         *)
(* Text model.  A Python str is a sequence of tokens; a token is a TLA+    *)
(* string standing for the characters it spells.  " " is one blank, "\n"   *)
(* one line break.  A token is either made of word characters only         *)
(* (WordToks), or of non-word characters only, or is a ProseTok (free      *)
(* text that starts and ends with a word character and that no pattern of  *)
(* the program looks into).  Two word tokens may stand side by side        *)
(* ("skip_" "before_filter"): they spell one identifier, and there is no   *)
(* word boundary between them.  Regular expressions are sequences of       *)
(* atoms over tokens and are matched with Python's greedy, leftmost,       *)
(* backtracking semantics.                                                 *)
(***************************************************************************)
EXTENDS Integers, Sequences, FiniteSets, TLC

VARIABLES
    file_path,            \* analyze_file: the path being analysed
    content,              \* analyze_file: the text read from file_path
    pc,                   \* position of the running operation
    tier1_issues,         \* results["tier1_issues"]
    tier2_issues,         \* results["tier2_issues"]
    suggestions,          \* results["suggestions"]
    pending,              \* issues of the current loop not yet processed
    file_context,         \* the context list _get_file_context returned
    file_context_cache,   \* HybridRailsAnalyzer.file_context_cache (insertion ordered)
    retriever,            \* Tier2RAGAnalyzer.retriever: None or the loaded index
    search_log,           \* queries handed to Retriever.search by the running call
    llm_calls,            \* number of LocalLLM.generate calls of the running call
    arg,                  \* input of the pure function under check
    ret,                  \* its result
    inserted,             \* history: the cached keys, oldest insertion first
    opened,               \* analyze_file: number of open() calls on file_path
    fs,                   \* the files on disk: records of path, text, readable, in walk order
    ruby_files,           \* analyze_project: the paths the walk collected
    file_no,              \* analyze_project: position of the loop over ruby_files
    project_results,      \* analyze_project: the dict being filled
    skipped,              \* history: the paths whose analysis raised
    calls,                \* LocalLLM.generate: one record per call, with its worker thread
    threads               \* the threads inside _get_file_context on one shared analyzer

vars == <<file_path, content, pc, tier1_issues, tier2_issues, suggestions, pending,
          file_context, file_context_cache, retriever, search_log, llm_calls, arg, ret,
          inserted, opened, fs, ruby_files, file_no, project_results, skipped, calls, threads>>

None == "None"

Max(S) == CHOOSE x \in S : \A y \in S : y <= x
Min(S) == CHOOSE x \in S : \A y \in S : x <= y

(***************************************************************************)
(* Tokens                                                                  *)
(***************************************************************************)
Spaces == {" "}
NL == "\n"
Quotes == {"'", "\""}

WordToks ==
    {"before_filter", "after_filter", "skip_", "before_action", "after_action",
     "update_attributes", "update", "attr_accessible", "gem", "protected_attributes",
     "rails", "observers", "paperclip", "image_processing", "factory_girl", "factory_bot",
     "_rails", "quiet_assets", "config", "serve_static_assets", "public_file_server",
     "enabled", "static_cache_control", "headers", "active_record",
     "raise_in_transactional_callbacks", "eager_load_paths", "autoload_paths",
     "devise_parameter_sanitizer", "for", "permit", "mysql2", "0", "3", "4", "5",
     "ActionDispatch", "ParamsParser", "XmlParamsParser", "Rails", "application",
     "session_store", "cookie_store", "key", "_app", "class", "TestName", "UsersTest",
     "ActionController", "ActionView", "TestCase", "IntegrationTest", "belongs_to",
     "required", "false", "true", "optional", "association", "find_by_", "find_all_by_",
     "find_by", "where", "attribute", "value", "RAILS_ENV", "RAILS_ROOT", "env", "root",
     "scope", "lambda", "name", "new", "create", "find", "params", "require", "user",
     "User", "id", "Item", "item", "def", "end", "if", "do", "private", "user_params",
     "authenticate_user", "save", "x", "y", "puts",
     "UPDATED_CODE", "EXPLANATION", "NO_CHANGE_NEEDED",
     "print", "console", "log", "import", "from", "image", "png", "attachment",
     "tensorflow", "sklearn", "nltk", "django", "jupyter", "empty_output", "os", "mnist",
     "ruby", "placeholder", "reference_link", "updated_code", "explanation",
     "explainaiton", "analyze", "tokenizer", "sentence", "qwerqwer", "asdfghjkl",
     "sdfgdsfg", "feedback", "so", "we", "could", "thank", "you", "please", "provide",
     "This", "The", "solution", "above", "code", "Note", "Explanation", "REFERENCE",
     "LINK", "module", "no", "change", "compatible", "already", "valid", "same", "as",
     "before", "unchanged", "doesn", "t", "needed", "here", "b", "UsersController",
     "each"}

ProseToks ==
    {"Use strong parameters in controller instead", "Remove and use strong parameters",
     "Use ActiveJob or callbacks instead", "Use Active Storage", "Not needed in Rails 5",
     "Remove this line", "Remove", "parsing is built", "in",
     "Remove or use actionpack", "xml_parser gem", "Update with secure configurations",
     "legacy", "This method is now safe", "Generation timed out",
     "manual review recommended", "Error generating response", "Use the new API"}

PunctToks ==
    {".", "(", ")", "[", "]", ":", "::", ",", "=", "+", "<", "{", "}", "~>", "-", "->",
     "#", "!", "@", "~~~", ">", "**", "..."}

Tokens == WordToks \cup ProseToks \cup PunctToks \cup Spaces \cup Quotes \cup {NL}

\* str.lower() / re.IGNORECASE on one token
Lower(t) ==
    CASE t = "User" -> "user"
      [] t = "Item" -> "item"
      [] t = "Rails" -> "rails"
      [] t = "RAILS_ENV" -> "rails_env"
      [] t = "RAILS_ROOT" -> "rails_root"
      [] t = "ActionDispatch" -> "actiondispatch"
      [] t = "ActionController" -> "actioncontroller"
      [] t = "ActionView" -> "actionview"
      [] t = "ParamsParser" -> "paramsparser"
      [] t = "XmlParamsParser" -> "xmlparamsparser"
      [] t = "TestCase" -> "testcase"
      [] t = "TestName" -> "testname"
      [] t = "UsersTest" -> "userstest"
      [] t = "IntegrationTest" -> "integrationtest"
      [] t = "UPDATED_CODE" -> "updated_code"
      [] t = "EXPLANATION" -> "explanation"
      [] t = "NO_CHANGE_NEEDED" -> "no_change_needed"
      [] t = "Gemfile" -> "gemfile"
      [] t = "UsersController" -> "userscontroller"
      [] t = "README" -> "readme"
      [] OTHER -> t

LowerSet(S) == {Lower(t) : t \in S}

\* a token whose first and last characters are word characters
IsWordEdge(t) == t \in WordToks \cup ProseToks

(***************************************************************************)
(* Regular expressions over tokens (Python re)                             *)
(***************************************************************************)
\* atoms: one token of s; s* ; s+ ; s? ; s*? ; \b ; (?!.*p)
One(s)  == [k |-> "one",  s |-> s, p |-> <<>>]
Lit(t)  == One({t})
Star(s) == [k |-> "star", s |-> s, p |-> <<>>]
Plus(s) == [k |-> "plus", s |-> s, p |-> <<>>]
Opt(s)  == [k |-> "opt",  s |-> s, p |-> <<>>]
Lazy(s) == [k |-> "lazy", s |-> s, p |-> <<>>]
WB      == [k |-> "wb",   s |-> {}, p |-> <<>>]
NotAhead(p) == [k |-> "nla", s |-> {}, p |-> p]
Sp0 == Star(Spaces)                         \* \s*
Sp1 == Plus(Spaces)                         \* \s+
W1  == Plus(WordToks)                       \* \w+
Q   == One(Quotes)                          \* ['"]
Any0 == Star(Tokens \ {NL})                 \* .*

\* does token t belong to the class s (ic: re.IGNORECASE)?
InClass(t, s, ic) == IF ic THEN Lower(t) \in LowerSet(s) ELSE t \in s

\* number of consecutive tokens of class s in line from position j
RunLen(line, j, s, ic) ==
    Max({n \in 0..(Len(line) - j + 1) :
            \A m \in 0..(n - 1) : InClass(line[j + m], s, ic)})

\* \b at position j: exactly one side is a word character
AtWordBoundary(line, j) ==
    LET before == j > 1 /\ IsWordEdge(line[j - 1])
        after  == j <= Len(line) /\ IsWordEdge(line[j])
    IN before # after

RECURSIVE MatchFrom(_, _, _, _, _)
RECURSIVE FirstMatch(_, _, _, _, _, _)

Descending(lo, hi) == [i \in 1..(hi - lo + 1) |-> hi + 1 - i]
Ascending(lo, hi) == [i \in 1..(hi - lo + 1) |-> lo + i - 1]

\* the positions a repetition over a run of run tokens may end at, from j, in the
\* order Python tries them: greedy ones longest first, the lazy one shortest first
RunEnds(kind, j, run) ==
    CASE kind = "star" -> Descending(j, j + run)
      [] kind = "plus" -> Descending(j + 1, j + run)
      [] kind = "opt"  -> Descending(j, j + (IF run > 1 THEN 1 ELSE run))
      [] kind = "lazy" -> Ascending(j, j + run)

\* the positions atom a may end at when it starts at position j of line
AtomEnds(a, line, j, ic) ==
    CASE a.k = "one" ->
             IF j <= Len(line) /\ InClass(line[j], a.s, ic) THEN <<j + 1>> ELSE <<>>
      [] a.k = "wb" -> IF AtWordBoundary(line, j) THEN <<j>> ELSE <<>>
      [] a.k = "nla" ->
             IF \E jj \in j..(Len(line) + 1) : MatchFrom(a.p, 1, line, jj, ic) # 0
             THEN <<>> ELSE <<j>>
      [] OTHER -> RunEnds(a.k, j, RunLen(line, j, a.s, ic))

\* e when the rest matched there, else the next alternative (backtracking)
OrNext(e, pat, k, line, ic, ends, i) ==
    IF e # 0 THEN e ELSE FirstMatch(pat, k, line, ic, ends, i + 1)

\* the match of atoms k.. of pat from the first of ends[i..] that admits one
FirstMatch(pat, k, line, ic, ends, i) ==
    IF i > Len(ends) THEN 0
    ELSE OrNext(MatchFrom(pat, k, line, ends[i], ic), pat, k, line, ic, ends, i)

\* re.match of atoms k.. of pat at position j of line: the position after the
\* match Python finds (greedy, backtracking), or 0 when there is none.
MatchFrom(pat, k, line, j, ic) ==
    IF k > Len(pat) THEN j
    ELSE FirstMatch(pat, k + 1, line, ic, AtomEnds(pat[k], line, j, ic), 1)

\* re.search(pat, line) is not None
ReSearch(pat, line, ic) ==
    \E j \in 1..(Len(line) + 1) : MatchFrom(pat, 1, line, j, ic) # 0

\* re.sub(pat, repl, line): every leftmost non-overlapping match replaced
RECURSIVE ReSubFrom(_, _, _, _, _)

\* e is where the match at j ends, 0 when there is none
ReSubAt(pat, repl, line, j, ic, e) ==
    IF e > j THEN repl \o ReSubFrom(pat, repl, line, e, ic)
    ELSE <<line[j]>> \o ReSubFrom(pat, repl, line, j + 1, ic)

ReSubFrom(pat, repl, line, j, ic) ==
    IF j > Len(line) THEN <<>>
    ELSE ReSubAt(pat, repl, line, j, ic, MatchFrom(pat, 1, line, j, ic))

ReSub(pat, repl, line, ic) == ReSubFrom(pat, repl, line, 1, ic)

\* needle in line  (needle: a token sequence)
Contains(line, needle) ==
    \E j \in 1..(Len(line) - Len(needle) + 1) :
        \A m \in 1..Len(needle) : line[j + m - 1] = needle[m]

\* needle in line.lower()
ContainsLower(line, needle) ==
    \E j \in 1..(Len(line) - Len(needle) + 1) :
        \A m \in 1..Len(needle) : Lower(line[j + m - 1]) = needle[m]

(***************************************************************************)
(* str helpers                                                             *)
(***************************************************************************)
IsBlankTok(t) == t \in Spaces \cup {NL}

\* number of leading / trailing whitespace tokens
LeadWs(s)  == Max({n \in 0..Len(s) : \A m \in 1..n : IsBlankTok(s[m])})
TrailWs(s) == Max({n \in 0..Len(s) : \A m \in 1..n : IsBlankTok(s[Len(s) + 1 - m])})

\* str.strip()
Strip(s) ==
    IF LeadWs(s) = Len(s) THEN <<>>
    ELSE SubSeq(s, LeadWs(s) + 1, Len(s) - TrailWs(s))

\* str.lstrip()
LStrip(s) == SubSeq(s, LeadWs(s) + 1, Len(s))

\* str.split('\n'): always at least one line
RECURSIVE SplitLines(_)
SplitLines(s) ==
    IF \A m \in 1..Len(s) : s[m] # NL THEN <<s>>
    ELSE LET i == Min({m \in 1..Len(s) : s[m] = NL})
         IN <<SubSeq(s, 1, i - 1)>> \o SplitLines(SubSeq(s, i + 1, Len(s)))

\* '\n'.join(lines)
RECURSIVE JoinLines(_)
JoinLines(ls) ==
    IF ls = <<>> THEN <<>>
    ELSE IF Len(ls) = 1 THEN ls[1]
    ELSE ls[1] \o <<NL>> \o JoinLines(Tail(ls))

Range(s) == {s[i] : i \in 1..Len(s)}

(***************************************************************************)
(* code_parser.py                                                          *)
(***************************************************************************)
\* (?:\[[^\]]+\])?  is written out as the two alternatives of each pattern
Index == <<Lit("["), Plus(Tokens \ {"]", NL}), Lit("]")>>

RiskCall(m) == <<Lit("."), Lit(m), Sp0, Lit("("), Sp0, Lit("params")>>

\* identifiers that contain \w+_params
ParamsNames == {"user_params"}

risk_patterns ==
    <<RiskCall("new") \o <<Sp0, Lit(")")>>,
      RiskCall("new") \o Index \o <<Sp0, Lit(")")>>,
      RiskCall("create") \o <<Sp0, Lit(")")>>,
      RiskCall("create") \o Index \o <<Sp0, Lit(")")>>,
      RiskCall("update") \o <<Sp0, Lit(")")>>,
      RiskCall("update") \o Index \o <<Sp0, Lit(")")>>,
      RiskCall("update_attributes") \o <<Sp0, Lit(")")>>,
      RiskCall("update_attributes") \o Index \o <<Sp0, Lit(")")>> >>

safe_patterns ==
    << <<Lit("params"), Lit("["), Any0, Lit("]"), Lit("."), Lit("permit"), Lit("(")>>,
       <<Lit("params"), Lit("."), Lit("require"), Lit("(")>>,
       <<Lit("params"), Lit("."), Lit("permit"), Lit("(")>>,
       <<Lit("def"), Sp1, Star(WordToks), One(ParamsNames)>>,
       <<Lit("#"), Any0>> >>

MatchesAny(pats, line, ic) == \E i \in 1..Len(pats) : ReSearch(pats[i], line, ic)

\* a faulty variant of the loop body: the safe patterns are never consulted
RiskWithoutExclusions(line) ==
    /\ Strip(line) # <<>>
    /\ MatchesAny(risk_patterns, line, TRUE)

\* the body of the loop of find_mass_assignment_risks for one line
IsMassAssignmentRisk(line) ==
    /\ Strip(line) # <<>>
    /\ ~MatchesAny(safe_patterns, line, TRUE)
    /\ MatchesAny(risk_patterns, line, TRUE)

RECURSIVE RisksFrom(_, _)
RisksFrom(lines, n) ==
    IF n > Len(lines) THEN <<>>
    ELSE (IF IsMassAssignmentRisk(lines[n])
          THEN << <<n, Strip(lines[n])>> >> ELSE <<>>) \o RisksFrom(lines, n + 1)

\* find_mass_assignment_risks(controller_content): list of (line_num, line_stripped)
find_mass_assignment_risks(controller_content) ==
    RisksFrom(SplitLines(controller_content), 1)

LookBack == 100

BlockOpeners == {"do", "if", "unless", "case", "while", "until", "begin", "class",
                 "module", "def"}

\* len(re.findall(r'\b(k1|k2|..)\b', line)) for keywords ks
CountKeywords(line, ks) ==
    Cardinality({j \in 1..Len(line) :
        line[j] \in ks /\ AtWordBoundary(line, j) /\ AtWordBoundary(line, j + 1)})

\* re.match(r'^(\s*)def\s+([a-zA-Z_][a-zA-Z0-9_]*[!?]?)', line)
DefHeader == <<Sp0, Lit("def"), Sp1, W1>>
IsMethodHeader(line) == MatchFrom(DefHeader, 1, line, 1, FALSE) # 0
HeaderIndent(line) == RunLen(line, 1, Spaces, FALSE)
NameUpTo(line, e) ==
    SubSeq(line, HeaderIndent(line) + 2 + RunLen(line, HeaderIndent(line) + 2, Spaces, FALSE),
           e - 1)
    \o (IF e <= Len(line) /\ line[e] \in {"!", "?"} THEN <<line[e]>> ELSE <<>>)
HeaderName(line) == NameUpTo(line, MatchFrom(DefHeader, 1, line, 1, FALSE))

MaxOrZero(S) == IF S = {} THEN 0 ELSE Max(S)
MinOrZero(S) == IF S = {} THEN 0 ELSE Min(S)

\* the backward loop: the 1-based line of the nearest header, 0 when none is found.
\* range(line_number - 1, max(0, line_number - 100), -1) visits the 0-based
\* indices line_number-1 down to max(0, line_number-100)+1.
FindMethodStart(lines, line_number) ==
    MaxOrZero({i + 1 : i \in {h \in (Max({0, line_number - LookBack}) + 1)..(line_number - 1) :
                                 IsMethodHeader(lines[h + 1])}})

IsSkippedLine(line) == Strip(line) = <<>> \/ Head(Strip(line)) = "#"

\* block_depth after the lines start..n (1-based) have been scanned
RECURSIVE BlockDepth(_, _, _)
BlockDepth(lines, start, n) ==
    IF n < start THEN 0
    ELSE BlockDepth(lines, start, n - 1)
         + (IF IsSkippedLine(lines[n]) THEN 0
            ELSE CountKeywords(Strip(lines[n]), BlockOpeners)
                 - CountKeywords(Strip(lines[n]), {"end"}))

\* the forward loop: the 1-based line that ends the method, 0 when none does
FindMethodEnd(lines, start, base_indent) ==
    MinOrZero({n \in start..Len(lines) :
                  /\ ~IsSkippedLine(lines[n])
                  /\ LeadWs(lines[n]) <= base_indent
                  /\ Strip(lines[n]) = <<"end">>
                  /\ BlockDepth(lines, start, n) <= 0})

\* the dict returned for the method of lines start..stop
MethodContext(lines, start, stop) ==
    << [method_name |-> HeaderName(lines[start]),
        start_line  |-> start,
        end_line    |-> stop,
        content     |-> JoinLines(SubSeq(lines, start, stop)),
        line_count  |-> stop - start + 1] >>

\* found is the line the forward loop stopped at, 0 when it ran to the end
ContextTo(lines, start, found) ==
    MethodContext(lines, start, IF found = 0 THEN Len(lines) ELSE found)

\* start is the header line the backward loop found, 0 when it found none
ContextAt(lines, start) ==
    IF start = 0 THEN <<>>
    ELSE ContextTo(lines, start, FindMethodEnd(lines, start, HeaderIndent(lines[start])))

ContextIn(lines, line_number) ==
    IF line_number < 1 \/ line_number > Len(lines) THEN <<>>
    ELSE ContextAt(lines, FindMethodStart(lines, line_number))

\* extract_method_context(file_content, line_number): <<>> is None
extract_method_context(file_content, line_number) ==
    ContextIn(SplitLines(file_content), line_number)

(***************************************************************************)
(* hybrid_analyzer.py: Tier1PatternDetector                                *)
(***************************************************************************)
TIER_1_CONFIDENCE == 90
TIER_2_CONFIDENCE == 80
RAG_SEARCH_LIMIT == 3

Rule(n, p, r, c) == [name |-> n, pattern |-> p, replacement |-> r, confidence |-> c]

Gem(g) == <<Lit("gem"), Sp1, Q>> \o g \o <<Q>>
Cfg(k) == <<Lit("config"), Lit("."), Lit(k), Sp0, Lit("=")>>
Comment(t) == <<"#", " ", t>>

\* Tier1PatternDetector.simple_patterns, in the dict's insertion order
\* (confidence in hundredths; the explanation texts are left out)
simple_patterns ==
    << Rule("before_filter_deprecation",
            <<WB, Lit("before_filter"), Sp1>>, <<"before_action", " ">>, 95),
       Rule("after_filter_deprecation",
            <<WB, Lit("after_filter"), Sp1>>, <<"after_action", " ">>, 95),
       Rule("skip_before_filter_deprecation",
            <<WB, Lit("skip_"), Lit("before_filter"), Sp1>>,
            <<"skip_", "before_action", " ">>, 95),
       Rule("update_attributes_deprecation",
            <<Lit("."), Lit("update_attributes"), Sp0, Lit("(")>>,
            <<".", "update", "(">>, 90),
       Rule("attr_accessible_deprecation",
            <<WB, Lit("attr_accessible"), Sp1>>,
            Comment("Use strong parameters in controller instead"), 95),
       Rule("protected_attributes_gem",
            Gem(<<Lit("protected_attributes")>>),
            Comment("Remove and use strong parameters"), 90),
       Rule("rails_observers_gem",
            Gem(<<Lit("rails"), Lit("-"), Lit("observers")>>),
            Comment("Use ActiveJob or callbacks instead"), 85),
       Rule("paperclip_deprecation",
            Gem(<<Lit("paperclip")>>),
            <<"gem", " ", "'", "image_processing", "'", " ", " ", "#", " ",
              "Use Active Storage">>, 80),
       Rule("factory_girl_rename",
            <<Lit("gem"), Sp1, Q, Lit("factory_girl")>>,
            <<"gem", " ", "'", "factory_bot">>, 95),
       Rule("quiet_assets_deprecation",
            Gem(<<Lit("quiet_assets")>>),
            <<"#", " ", "Not needed in Rails 5", "+">>, 90),
       Rule("serve_static_assets_config",
            Cfg("serve_static_assets"),
            <<"config", ".", "public_file_server", ".", "enabled", " ", "=">>, 95),
       Rule("static_cache_control_config",
            Cfg("static_cache_control"),
            <<"config", ".", "public_file_server", ".", "headers", " ", "=">>, 90),
       Rule("raise_in_transactional_callbacks",
            <<Lit("config"), Lit("."), Lit("active_record"), Lit("."),
              Lit("raise_in_transactional_callbacks"), Sp0, Lit("=")>>,
            Comment("Remove this line"), 95),
       Rule("eager_load_paths_deprecation",
            <<Lit("config"), Lit("."), Lit("eager_load_paths"), Sp0, Lit("+"), Lit("=")>>,
            <<"config", ".", "autoload_paths", " ", "+", "=">>, 80),
       Rule("devise_parameter_sanitizer_old",
            <<Lit("devise_parameter_sanitizer"), Lit("."), Lit("for"), Lit("(")>>,
            <<"devise_parameter_sanitizer", ".", "permit", "(">>, 90),
       Rule("mysql2_version_constraint",
            Gem(<<Lit("mysql2")>>) \o <<Lit(","), Sp0, Q, Lit("~>"), Sp0, Lit("0"),
                                        Lit("."), One({"3", "4"})>>,
            <<"gem", " ", "'", "mysql2", "'", ",", " ", "'", "~>", " ", "0", ".", "5",
              "'">>, 85),
       Rule("actiondispatch_parsers",
            <<Lit("ActionDispatch"), Lit("::"), Lit("ParamsParser")>>,
            <<"#", " ", "Remove", " ", "-", " ", "parsing is built", "-", "in">>, 90),
       Rule("actiondispatch_xml_parser",
            <<Lit("ActionDispatch"), Lit("::"), Lit("XmlParamsParser")>>,
            <<"#", " ", "Remove or use actionpack", "-", "xml_parser gem">>, 85),
       Rule("session_store_config",
            <<Lit("Rails"), Lit("."), Lit("application"), Lit("."), Lit("config"),
              Lit("."), Lit("session_store"), Sp1, Lit(":"), Lit("cookie_store")>>,
            <<"Rails", ".", "application", ".", "config", ".", "session_store", " ",
              ":", "cookie_store">>, 70),
       Rule("cookie_store_key_config",
            <<Lit("session_store"), Sp1, Lit(":"), Lit("cookie_store"), Lit(","), Sp0,
              Lit("key"), Lit(":"), Sp0, Q, Star(Tokens \ (Quotes \cup {NL})), Q>>,
            Comment("Update with secure configurations"), 80),
       Rule("test_case_inheritance",
            <<Lit("class"), Sp1, W1, Sp0, Lit("<"), Sp0, Lit("ActionController"),
              Lit("::"), Lit("TestCase")>>,
            <<"class", " ", "TestName", " ", "<", " ", "ActionDispatch", "::",
              "IntegrationTest">>, 90),
       Rule("action_view_test_case",
            <<Lit("class"), Sp1, W1, Sp0, Lit("<"), Sp0, Lit("ActionView"),
              Lit("::"), Lit("TestCase")>>,
            <<"class", " ", "TestName", " ", "<", " ", "ActionView", "::",
              "TestCase">>, 60),
       Rule("belongs_to_required",
            <<Lit("belongs_to"), Sp1, Lit(":"), W1,
              NotAhead(<<Lit("required"), Lit(":"), Sp0, Lit("false")>>)>>,
            <<"belongs_to", " ", ":", "association", ",", " ", "optional", ":", " ",
              "true">>, 70),
       Rule("find_by_dynamic_methods",
            <<Lit("."), Lit("find_by_"), W1, Lit("(")>>,
            <<".", "find_by", "(", "attribute", ":", " ", "value", ")">>, 85),
       Rule("find_all_by_dynamic_methods",
            <<Lit("."), Lit("find_all_by_"), W1, Lit("(")>>,
            <<".", "where", "(", "attribute", ":", " ", "value", ")">>, 85),
       Rule("rails_env_constant",
            <<WB, Lit("RAILS_ENV"), WB>>, <<"Rails", ".", "env">>, 90),
       Rule("rails_root_constant",
            <<WB, Lit("RAILS_ROOT"), WB>>, <<"Rails", ".", "root">>, 90),
       Rule("scope_lambda_syntax",
            <<Lit("scope"), Sp1, Lit(":"), W1, Lit(","), Sp0, Lit("lambda"), Sp0,
              Lit("{")>>,
            <<"scope", " ", ":", "name", ",", " ", "->", " ", "{">>, 80) >>

\* rules.get(pattern_type): the rule's position, 0 when absent
RuleIndex(pattern_type, rules) ==
    MinOrZero({i \in 1..Len(rules) : rules[i].name = pattern_type})

\* DetectionResult; method_context is <<>> (None) or <<context>>
DetectionResult(fp, pt, ln, lc, mc, cf) ==
    [file_path |-> fp, pattern_type |-> pt, line_number |-> ln, line_content |-> lc,
     method_context |-> mc, confidence |-> cf]

\* Tier1PatternDetector._is_controller_file
is_controller_file(fp) ==
    \/ ContainsLower(fp, <<"controller">>)
    \/ Contains(fp, <<"/", "app", "/", "controller", "s", "/">>)

RECURSIVE MassResults(_, _, _)
MassResults(fp, text, risks) ==
    IF risks = <<>> THEN <<>>
    ELSE << DetectionResult(fp,
               IF Contains(Head(risks)[2], <<"update_attributes">>)
               THEN "mass_assignment_with_deprecation" ELSE "mass_assignment",
               Head(risks)[1], Head(risks)[2],
               extract_method_context(text, Head(risks)[1]), TIER_1_CONFIDENCE) >>
         \o MassResults(fp, text, Tail(risks))

\* Tier1PatternDetector.detect_mass_assignment
detect_mass_assignment(fp, text) ==
    IF ~is_controller_file(fp) THEN <<>>
    ELSE MassResults(fp, text, find_mass_assignment_risks(text))

\* tokens that end in "attributes"
AttributesToks == {"update_attributes", "protected_attributes"}

\* 'params[' in line and ('update_attributes' in line or 'attributes=' in line)
LooksLikeMassAssignment(line) ==
    /\ Contains(line, <<"params", "[">>)
    /\ \/ Contains(line, <<"update_attributes">>)
       \/ \E t \in AttributesToks : Contains(line, <<t, "=">>)

\* the first rule of the table whose pattern is found in line, 0 when none is
FirstMatchingRule(line, rules) ==
    MinOrZero({i \in 1..Len(rules) : ReSearch(rules[i].pattern, line, FALSE)})

\* the result for line n, whose first matching rule is rules[r] (none when r = 0)
SimpleResult(fp, line, n, rules, r) ==
    IF r = 0 THEN <<>>
    ELSE << DetectionResult(fp, rules[r].name, n, Strip(line), <<>>, rules[r].confidence) >>

RECURSIVE SimpleResults(_, _, _, _, _)
SimpleResults(fp, lines, n, processed_lines, rules) ==
    IF n > Len(lines) THEN <<>>
    ELSE (IF n \in processed_lines \/ LooksLikeMassAssignment(lines[n]) THEN <<>>
          ELSE SimpleResult(fp, lines[n], n, rules, FirstMatchingRule(lines[n], rules)))
         \o SimpleResults(fp, lines, n + 1, processed_lines, rules)

\* Tier1PatternDetector.detect_simple_deprecations
detect_simple_deprecations(fp, text, processed_lines) ==
    SimpleResults(fp, SplitLines(text), 1, processed_lines, simple_patterns)

\* a faulty variant: the simple scan is not told which lines are processed
WithEverySimpleResult(fp, text, mass_assignment_results) ==
    mass_assignment_results \o detect_simple_deprecations(fp, text, {})

\* the mass-assignment results, then the simple ones of the other lines
WithSimpleResults(fp, text, mass_assignment_results) ==
    mass_assignment_results
    \o detect_simple_deprecations(fp, text,
          {mass_assignment_results[i].line_number : i \in 1..Len(mass_assignment_results)})

\* Tier1PatternDetector.detect_all_tier1_issues
detect_all_tier1_issues(fp, text) ==
    WithSimpleResults(fp, text, detect_mass_assignment(fp, text))

(***************************************************************************)
(* hybrid_analyzer.py: the response sanitizer                              *)
(***************************************************************************)
Dot == Tokens \ {NL}                        \* .

\* word tokens made of letters only ([a-z] under re.IGNORECASE)
LetterToks ==
    {t \in WordToks : t \in
        {"update", "gem", "rails", "observers", "paperclip", "config", "enabled",
         "headers", "for", "permit", "application", "key", "class", "required", "false",
         "true", "optional", "association", "where", "attribute", "value", "env", "root",
         "scope", "lambda", "name", "new", "create", "find", "params", "require", "user",
         "id", "item", "def", "end", "if", "do", "private", "save", "x", "y", "puts",
         "print", "console", "log", "import", "from", "image", "png", "attachment",
         "tensorflow", "sklearn", "nltk", "django", "jupyter", "os", "mnist", "ruby",
         "placeholder", "explanation", "module", "code", "solution"}}

StartsWith(s, prefix) == Len(s) >= Len(prefix) /\ SubSeq(s, 1, Len(prefix)) = prefix
StartsWithLower(s, prefix) ==
    Len(s) >= Len(prefix) /\ \A m \in 1..Len(prefix) : Lower(s[m]) = prefix[m]

\* text.split(sep)[0]
BeforeFirst(text, sep) ==
    IF ~Contains(text, sep) THEN text
    ELSE SubSeq(text, 1,
            Min({j \in 1..(Len(text) - Len(sep) + 1) :
                    \A m \in 1..Len(sep) : text[j + m - 1] = sep[m]}) - 1)

\* text.split(sep)[1]  (given that sep occurs in text)
AfterFirst(text, sep) ==
    LET j == Min({i \in 1..(Len(text) - Len(sep) + 1) :
                     \A m \in 1..Len(sep) : text[i + m - 1] = sep[m]})
    IN BeforeFirst(SubSeq(text, j + Len(sep), Len(text)), sep)

corruption_patterns ==
    << <<Lit("print"), Lit("("), Q, Lazy(Dot), Q, Lazy(Dot), Lit(")")>>,
       <<Lit("console"), Lit("."), Lit("log"), Any0>>,
       <<Lit("import"), Lit(" "), Any0>>,
       <<Lit("from"), Lit(" "), Any0, Lit(" "), Lit("import"), Lit(" "), Any0>>,
       <<Lit("<"), Plus(Tokens \ {">"}), Lit(">")>>,
       <<Lit("~~~"), Star(LetterToks), Opt({NL})>>,
       <<Lit("["), Lit("image"), Lit("."), Lit("png"), Lit("]"), Any0>>,
       <<Lit("attachment"), Lit(":"), Any0>>,
       <<Lit("tensorflow"), Any0>>,
       <<Lit("sklearn"), Any0>>,
       <<Lit("nltk"), Any0>>,
       <<Lit("django"), Any0>>,
       <<Lit("jupyter"), Any0>>,
       <<Lit("<"), Lit("empty_output"), Lit(">"), Any0>> >>

RECURSIVE SubAll(_, _, _)
SubAll(pats, n, text) ==
    IF n > Len(pats) THEN text
    ELSE SubAll(pats, n + 1, ReSub(pats[n], <<>>, text, TRUE))

corruption_indicators ==
    { <<"\"", ",", " ", "updated_code", ")">>, <<"\"", ",", " ", "explanation", ")">>,
      <<"reference_link">>, <<"def", " ", "analyze", "(", ")">>,
      <<"tokenizer", " ", "=">>, <<"sentence", " ", "=">>, <<"placeholder">>,
      <<"feedback", " ", "so", " ", "we", " ", "could">>, <<"thank", " ", "you">>,
      <<"please", " ", "provide">>, <<"qwerqwer">>, <<"asdfghjkl">>, <<"sdfgdsfg">> }

HasAnyLower(line, needles) == \E nd \in needles : ContainsLower(line, nd)

RECURSIVE DropLines(_, _)
DropLines(lines, needles) ==
    IF lines = <<>> THEN <<>>
    ELSE (IF HasAnyLower(Head(lines), needles) THEN <<>> ELSE <<Head(lines)>>)
         \o DropLines(Tail(lines), needles)

\* HybridRailsAnalyzer._clean_llm_response
clean_llm_response(response) ==
    IF response = <<>> THEN <<>>
    ELSE Strip(JoinLines(DropLines(SplitLines(SubAll(corruption_patterns, 1, response)),
                                   corruption_indicators)))

extract_skips ==
    { <<"print", "(">>, <<"console", ".", "log">>, <<"puts", " ">>,
      <<"\"", ",", " ", "updated_code", ")">>, <<"\"", ",", " ", "explanation", ")">>,
      <<"reference_link">>, <<"tensorflow">>, <<"import", " ", "os">>, <<"mnist">>,
      <<"django">>, <<"sdfgdsfg">>, <<"qwerqwer">>, <<"asdfghjkl">>,
      <<"from", " ", "django">> }

IsCodeLine(line) == Strip(line) # <<>> /\ Head(Strip(line)) # "#"

RECURSIVE KeepCodeLines(_)
KeepCodeLines(lines) ==
    IF lines = <<>> THEN <<>>
    ELSE (IF ~HasAnyLower(Head(lines), extract_skips) /\ IsCodeLine(Head(lines))
          THEN <<Head(lines)>> ELSE <<>>) \o KeepCodeLines(Tail(lines))

separators ==
    << <<NL, "This", " ", "solution">>, <<NL, "The", " ", "above">>,
       <<NL, "This", " ", "code">>, <<NL, "Note", ":">>, <<NL, "Explanation", ":">>,
       <<"REFERENCE", " ", "LINK">>, <<"explainaiton", ":">>, <<"explanation", ":">> >>

RECURSIVE CutAtSeparators(_, _)
CutAtSeparators(text, n) ==
    IF n > Len(separators) THEN text
    ELSE CutAtSeparators(BeforeFirst(text, separators[n]), n + 1)

\* stripped.startswith(('def ', 'class ', 'module ', 'private'))
StartsUnit(stripped) ==
    \/ StartsWith(stripped, <<"def", " ">>)
    \/ StartsWith(stripped, <<"class", " ">>)
    \/ StartsWith(stripped, <<"module", " ">>)
    \/ StartsWith(stripped, <<"private">>)

\* stripped.count('def ')
CountDef(stripped) ==
    Cardinality({j \in 1..(Len(stripped) - 1) : stripped[j] = "def" /\ stripped[j + 1] = " "})

RECURSIVE CaptureUnit(_, _, _, _, _, _)

DefCountAfter(stripped, def_count) ==
    IF StartsUnit(stripped)
    THEN def_count + CountDef(stripped)
         + (IF \/ StartsWith(stripped, <<"class", " ">>)
               \/ StartsWith(stripped, <<"module", " ">>) THEN 1 ELSE 0)
    ELSE def_count

EndCountAfter(stripped, in_method, end_count) ==
    IF in_method /\ stripped = <<"end">> THEN end_count + 1 ELSE end_count

\* line n with in_method and the counters as they are after it
CaptureStep(lines, n, ruby_lines, in_method, def_count, end_count) ==
    IF ~in_method
    THEN CaptureUnit(lines, n + 1, ruby_lines, in_method, def_count, end_count)
    ELSE IF def_count > 0 /\ def_count = end_count
    THEN Append(ruby_lines, lines[n])
    ELSE CaptureUnit(lines, n + 1, Append(ruby_lines, lines[n]), in_method, def_count,
                     end_count)

CaptureLine(lines, n, ruby_lines, in_method, def_count, end_count, stripped) ==
    IF ruby_lines = <<>> /\ stripped = <<>>
    THEN CaptureUnit(lines, n + 1, ruby_lines, in_method, def_count, end_count)
    ELSE CaptureStep(lines, n, ruby_lines, in_method \/ StartsUnit(stripped),
                     DefCountAfter(stripped, def_count),
                     EndCountAfter(stripped, in_method \/ StartsUnit(stripped), end_count))

\* the capture loop of _extract_ruby_code from line n on: ruby_lines at its end
CaptureUnit(lines, n, ruby_lines, in_method, def_count, end_count) ==
    IF n > Len(lines) THEN ruby_lines
    ELSE CaptureLine(lines, n, ruby_lines, in_method, def_count, end_count,
                     Strip(lines[n]))

SAFETY_LEN == 200

\* number of characters a token spells (prose tokens are taken as one word)
CharLen(t) == 1

RECURSIVE CharLenOf(_)
CharLenOf(s) == IF s = <<>> THEN 0 ELSE CharLen(Head(s)) + CharLenOf(Tail(s))

\* s[:n]
Truncate(s, n) ==
    SubSeq(s, 1, Max({m \in 0..Len(s) : CharLenOf(SubSeq(s, 1, m)) <= n}))

\* the fence and markup removal of _extract_ruby_code
StripMarkup(joined) ==
    ReSub(<<Lit("<"), Plus(Tokens \ {">"}), Lit(">")>>, <<>>,
          ReSub(<<Lit("~~~"), Opt({NL})>>, <<>>,
                ReSub(<<Lit("~~~"), Lit("ruby"), Opt({NL})>>, <<>>, joined, FALSE),
                FALSE),
          FALSE)

\* the fallbacks when no unit was captured
FirstMeaningful(cleaned, lines, meaningful) ==
    IF meaningful # {} THEN Strip(lines[Min(meaningful)])
    ELSE Truncate(Strip(cleaned), SAFETY_LEN)

CodeOr(cleaned, lines, ruby_lines) ==
    IF ruby_lines # <<>> THEN Strip(JoinLines(ruby_lines))
    ELSE FirstMeaningful(cleaned, lines, {n \in 1..Len(lines) : IsCodeLine(lines[n])})

CodeOfUnit(cleaned, lines) ==
    CodeOr(cleaned, lines, CaptureUnit(lines, 1, <<>>, FALSE, 0, 0))

CodeOfText(cleaned) == CodeOfUnit(cleaned, SplitLines(cleaned))

CodeOfLines(clean_lines) ==
    IF clean_lines = <<>> THEN <<>>
    ELSE CodeOfText(CutAtSeparators(StripMarkup(JoinLines(clean_lines)), 1))

\* HybridRailsAnalyzer._extract_ruby_code
extract_ruby_code(response) ==
    IF Strip(response) = <<>> THEN <<>>
    ELSE CodeOfLines(KeepCodeLines(SplitLines(response)))

(***************************************************************************)
(* retriever.py: Retriever over a flat inner-product index                 *)
(*                                                                         *)
(* An index is a sequence of documents; the document at position i has id  *)
(* i - 1.  Vectors are axis-aligned integer pairs, so that L2              *)
(* normalisation is the componentwise sign and the inner product of        *)
(* normalised vectors is the cosine, in {-1, 0, 1}.                        *)
(***************************************************************************)
Sign(n) == IF n > 0 THEN 1 ELSE IF n < 0 THEN 0 - 1 ELSE 0

\* faiss.normalize_L2 on an axis-aligned vector
normalize_L2(v) == <<Sign(v[1]), Sign(v[2])>>

InnerProduct(u, v) == u[1] * v[1] + u[2] * v[2]

\* self.embedder.encode([query]): the sentence embedder, an opaque service; the
\* model fixes one embedding per query text.
Encode(query) ==
    CASE Head(query) \in {"ActionController deprecation", "Rails controller API changes",
                          "ActionController deprecation upgrade"} -> <<2, 0>>
      [] Head(query) \in {"ActiveRecord model deprecation", "Rails model API changes",
                          "ActiveRecord deprecation upgrade"} -> <<0, 3>>
      [] Head(query) \in {"Rails gem version compatibility", "Gemfile Rails upgrade",
                          "Rails gem compatibility"} -> <<0 - 2, 0>>
      [] OTHER -> <<0, 0 - 1>>

\* the score of the document with id a
ScoreOf(index, q_emb, a) == InnerProduct(index[a + 1].vec, q_emb)

\* does document id a rank before document id b (by id on ties)?
RanksBefore(index, q_emb, a, b) ==
    \/ ScoreOf(index, q_emb, a) > ScoreOf(index, q_emb, b)
    \/ (ScoreOf(index, q_emb, a) = ScoreOf(index, q_emb, b) /\ a < b)

\* the id of the document of rank r (rank 1 is the best)
AtRank(index, q_emb, r) ==
    CHOOSE a \in 0..(Len(index) - 1) :
        Cardinality({b \in 0..(Len(index) - 1) : RanksBefore(index, q_emb, b, a)}) = r - 1

ScoredPair(index, q_emb, a) == <<a, ScoreOf(index, q_emb, a)>>

\* self.index.search(q_emb, top_k) of a flat inner-product index: top_k pairs
\* <<id, score>> by decreasing score, padded with id -1 when the index is short
IndexSearch(index, q_emb, top_k) ==
    [r \in 1..top_k |->
        IF r <= Len(index) THEN ScoredPair(index, q_emb, AtRank(index, q_emb, r))
        ELSE <<0 - 1, 0 - 9>>]

\* a faulty variant of the loop of search: padded ids are kept (metas[-1] is the
\* last meta)
RECURSIVE HitsWithPadding(_, _)
HitsWithPadding(index, pairs) ==
    IF pairs = <<>> THEN <<>>
    ELSE << [id |-> Head(pairs)[1], score |-> Head(pairs)[2],
             meta |-> IF index = <<>> THEN None
                      ELSE IF Head(pairs)[1] < 0 THEN index[Len(index)].meta
                      ELSE index[Head(pairs)[1] + 1].meta] >>
         \o HitsWithPadding(index, Tail(pairs))

RECURSIVE Hits(_, _)
Hits(index, pairs) ==
    IF pairs = <<>> THEN <<>>
    ELSE (IF Head(pairs)[1] < 0 THEN <<>>
          ELSE << [id |-> Head(pairs)[1], score |-> Head(pairs)[2],
                   meta |-> index[Head(pairs)[1] + 1].meta] >>)
         \o Hits(index, Tail(pairs))

\* Retriever.search(query, top_k)
Search(index, query, top_k) ==
    Hits(index, IndexSearch(index, normalize_L2(Encode(query)), top_k))

\* Retriever.search raises IndexError at self.metas[sid] when the metadata file
\* has fewer lines than the index has vectors: the meta of such a document is
\* written with source None
SearchRaises(index, query, top_k) ==
    \E r \in 1..Min({top_k, Len(index)}) :
        index[AtRank(index, normalize_L2(Encode(query)), r) + 1].meta.source = None

(***************************************************************************)
(* hybrid_analyzer.py: Tier2RAGAnalyzer                                    *)
(***************************************************************************)
EndsWith(s, suffix) ==
    Len(s) >= Len(suffix) /\ SubSeq(s, Len(s) - Len(suffix) + 1, Len(s)) = suffix

ContainsAnyLower(text, needles) == \E nd \in needles : ContainsLower(text, nd)

important_files ==
    { <<"gemfile">>, <<"gemspec">>, <<"rakefile">>, <<"routes", ".", "rb">>,
      <<"application", ".", "rb">>, <<"environment", ".", "rb">>, <<"boot", ".", "rb">>,
      <<"schema", ".", "rb">>, <<"seeds", ".", "rb">> }

\* re.search of Tier2RAGAnalyzer.config_patterns in the path
MatchesConfigPattern(fp) ==
    \/ Contains(fp, <<"config", "/", "application", ".", "rb">>)
    \/ (Contains(fp, <<"config", "/", "environments", "/">>) /\ Contains(fp, <<".", "rb">>))
    \/ (Contains(fp, <<"config", "/", "initializers", "/">>) /\ Contains(fp, <<".", "rb">>))
    \/ Contains(fp, <<"config", "/", "routes", ".", "rb">>)
    \/ Contains(fp, <<"config", "/", "database", ".", "yml">>)
    \/ Contains(fp, <<"Gemfile">>)

rails_indicators ==
    { <<"rails", ".">>, <<"activerecord">>, <<"actioncontroller">>, <<"actionview">>,
      <<"actionmailer">>, <<"config", ".">>, <<"gem", " ">>, <<"require", " ">>,
      <<"include", " ">>, <<"before_action">>, <<"before_filter">>, <<"validates">>,
      <<"scope">>, <<"belongs_to">>, <<"has_many">>, <<"has_one">>, <<"serialize">>,
      <<"update_attributes">>, <<"find_by_">>, <<"where", "(">> }

\* Tier2RAGAnalyzer.needs_tier2_analysis; text is what open(file_path) reads
needs_tier2_analysis(fp, text) ==
    \/ ContainsAnyLower(fp, important_files)
    \/ MatchesConfigPattern(fp)
    \/ (EndsWith(fp, <<".", "rb">>) /\ ContainsAnyLower(text, rails_indicators))

\* needs_tier2_analysis opens fp itself when neither the name nor the config
\* patterns decide
OpensForIndicators(fp) ==
    /\ ~ContainsAnyLower(fp, important_files)
    /\ ~MatchesConfigPattern(fp)
    /\ EndsWith(fp, <<".", "rb">>)

\* re.findall(r'config\.(\w+)', content) as a set of names
ConfigMethods(text) ==
    {SubSeq(text, j + 2, j + 1 + RunLen(text, j + 2, WordToks, FALSE)) :
        j \in {i \in 1..(Len(text) - 2) :
                  text[i] = "config" /\ text[i + 1] = "." /\ text[i + 2] \in WordToks}}

\* the orders in which Python may iterate over a set
Orders(S) ==
    {o \in [1..Cardinality(S) -> S] : \A i, j \in 1..Cardinality(S) : i # j => o[i] # o[j]}

PathQueries(fp) ==
    IF Contains(fp, <<"config", "/", "application", ".", "rb">>)
    THEN << <<"Rails application configuration changes">>,
            <<"config.application settings deprecation">>,
            <<"Rails application.rb upgrade">> >>
    ELSE IF Contains(fp, <<"config", "/", "environments">>)
    THEN << <<"Rails environment configuration changes">>,
            <<"production development test config deprecation">> >>
    ELSE IF Contains(fp, <<"Gemfile">>)
    THEN << <<"Rails gem version compatibility">>, <<"Gemfile Rails upgrade">> >>
    ELSE IF Contains(fp, <<"test", "/">>) \/ Contains(fp, <<"_test", ".", "rb">>)
    THEN << <<"Rails testing framework changes">>, <<"test deprecation Rails upgrade">>,
            <<"ActionController testing changes">>,
            <<"ActiveRecord testing deprecated methods">> >>
    ELSE IF Contains(fp, <<"model", "s", "/">>)
    THEN << <<"ActiveRecord model deprecation">>, <<"Rails model API changes">>,
            <<"ActiveRecord upgrade issues">> >>
    ELSE IF Contains(fp, <<"controller", "s", "/">>)
    THEN << <<"ActionController deprecation">>, <<"Rails controller API changes">>,
            <<"before_filter before_action">> >>
    ELSE IF Contains(fp, <<"views", "/">>)
    THEN << <<"ActionView deprecation">>, <<"Rails view helper changes">>,
            <<"ERB template changes">> >>
    ELSE IF Contains(fp, <<"helpers", "/">>)
    THEN << <<"Rails helper deprecation">>, <<"ActionView helper changes">> >>
    ELSE <<>>

ContentQueries(text) ==
    (IF ContainsAnyLower(text, { <<"activerecord">>, <<"belongs_to">>, <<"has_many">>,
                                 <<"validates">> })
     THEN << <<"ActiveRecord deprecation upgrade">> >> ELSE <<>>)
    \o (IF ContainsAnyLower(text, { <<"actioncontroller">>, <<"before_filter">>,
                                    <<"before_action">> })
        THEN << <<"ActionController deprecation upgrade">> >> ELSE <<>>)
    \o (IF ContainsAnyLower(text, { <<"test_">>, <<"assert_">>, <<"should_">> })
        THEN << <<"Rails testing deprecation">> >> ELSE <<>>)
    \o (IF ContainsLower(text, <<"gem", " ">>)
        THEN << <<"Rails gem compatibility">> >> ELSE <<>>)
    \o (IF ContainsLower(text, <<"config", ".">>)
        THEN << <<"Rails configuration deprecation">> >> ELSE <<>>)

\* Tier2RAGAnalyzer._generate_search_queries; order enumerates set(rails_methods)
generate_search_queries(fp, text, order) ==
    LET specific == PathQueries(fp) \o ContentQueries(text)
                    \o [i \in 1..Len(order) |->
                           <<"Rails config.">> \o order[i] \o <<" deprecation upgrade">>]
        queries == IF specific = <<>> /\ EndsWith(fp, <<".", "rb">>)
                   THEN << <<"Rails upgrade deprecation">>, <<"Rails API changes">>,
                           <<"Rails target_version upgrade">> >>
                   ELSE specific
    IN SubSeq(queries, 1, Min({5, Len(queries)}))

\* tokens that spell "params" inside, whatever the case
ParamsLikeToks == {"params", "ParamsParser", "XmlParamsParser", "user_params"}

Const(m) == <<Lit(m), Lit("::"), W1>>
Word(w) == <<Lit(w)>>

\* potential_patterns of _scan_for_potential_issues (searched with re.IGNORECASE)
potential_patterns ==
    << <<Lit("config"), Lit("."), W1, Sp0, Lit("=")>>,
       <<Lit("Rails"), Lit("."), W1, Lit(".")>>,
       Const("ActiveRecord"), Const("ActionController"), Const("ActionDispatch"),
       Const("ActionMailer"), Const("ActionView"),
       <<Lit("gem"), Sp1, Q, Plus(Tokens \ (Quotes \cup {NL})), Q, Any0, Lit("4"),
         Lit("."), One({"0", "3", "4", "5"})>>,
       Word("serve_static_assets"), Word("static_cache_control"),
       Word("raise_in_transactional_callbacks"), Word("eager_load_paths"),
       Word("autoload_paths"),
       <<Lit("middleware"), Lit("."), Lit("use"), Any0, One(ParamsLikeToks)>>,
       Word("attr_accessible"), Word("protected_attributes"), Word("paperclip"),
       Word("factory_girl"), <<Lit("rails"), Lit("-"), Lit("observers")>>,
       Word("quiet_assets"),
       <<Lit("mysql2"), Any0, Lit("0"), Lit("."), One({"3", "4"})>>,
       <<Lit("devise_parameter_sanitizer"), Lit("."), Lit("for")>>,
       Word("before_filter"), Word("update_attributes"),
       <<Lit("."), Lit("find_by_"), W1, Lit("(")>>,
       <<Lit("."), Lit("find_all_by_"), W1, Lit("(")>>,
       <<Lit("."), Lit("find_or_create_by_"), W1, Lit("(")>>,
       <<Lit("scope"), Sp0, Lit(":"), Any0, Lit("lambda")>>,
       <<Lit("validates_"), W1, Lit("_of")>>,
       Word("RAILS_ENV"), Word("RAILS_ROOT"),
       <<Lit("ActionController"), Lit("::"), Lit("Routing")>> >>

RECURSIVE PotentialFrom(_, _, _)
PotentialFrom(fp, lines, n) ==
    IF n > Len(lines) THEN <<>>
    ELSE (IF MatchesAny(potential_patterns, lines[n], TRUE)
          THEN << DetectionResult(fp, "complex_deprecation", n, Strip(lines[n]), <<>>,
                                  TIER_2_CONFIDENCE) >>
          ELSE <<>>) \o PotentialFrom(fp, lines, n + 1)

\* Tier2RAGAnalyzer._scan_for_potential_issues, as the DetectionResults
\* analyze_with_rag builds from it
scan_for_potential_issues(fp, text) == PotentialFrom(fp, SplitLines(text), 1)

\* retriever.search for each query in turn: the hits, concatenated
RECURSIVE SearchAll(_, _)
SearchAll(index, queries) ==
    IF queries = <<>> THEN <<>>
    ELSE Search(index, Head(queries), RAG_SEARCH_LIMIT) \o SearchAll(index, Tail(queries))

\* the scan, run when any context was found
IssuesWith(fp, text, all_contexts, searched) ==
    [issues |-> IF all_contexts # <<>> THEN scan_for_potential_issues(fp, text) ELSE <<>>,
     searched |-> searched]

\* the queries searched until one raises (all of them when none does)
RECURSIVE SearchedUntilRaise(_, _)
SearchedUntilRaise(index, queries) ==
    IF queries = <<>> THEN <<>>
    ELSE IF SearchRaises(index, Head(queries), RAG_SEARCH_LIMIT) THEN <<Head(queries)>>
    ELSE <<Head(queries)>> \o SearchedUntilRaise(index, Tail(queries))

AnySearchRaises(index, queries) ==
    \E i \in 1..Len(queries) : SearchRaises(index, queries[i], RAG_SEARCH_LIMIT)

\* the legacy branch: one search per generated query; an exception is caught
\* by analyze_with_rag, which then returns no result
LegacyAnalysis(index, fp, text, search_queries) ==
    IF AnySearchRaises(index, search_queries)
    THEN [issues |-> <<>>, searched |-> SearchedUntilRaise(index, search_queries)]
    ELSE IssuesWith(fp, text, SearchAll(index, search_queries), search_queries)

\* Tier2RAGAnalyzer.analyze_with_rag: [issues, searched]; retr is <<>> (None) or
\* <<index>>; searched are the queries of the legacy branch
analyze_with_rag(retr, fp, text, ctx, order) ==
    IF retr = <<>> /\ ctx = <<>> THEN [issues |-> <<>>, searched |-> <<>>]
    ELSE IF ctx # <<>> THEN IssuesWith(fp, text, ctx, <<>>)
    ELSE LegacyAnalysis(retr[1], fp, text, generate_search_queries(fp, text, order))

(***************************************************************************)
(* hybrid_analyzer.py: HybridRailsAnalyzer                                 *)
(***************************************************************************)
\* capacity of the file-context cache
FILE_CONTEXT_CACHE_SIZE == 100

\* file_context_cache is a dict: a sequence of [key, value] in insertion order
CacheKeys(cache) == {cache[i].key : i \in 1..Len(cache)}
CacheValue(cache, key) == cache[CHOOSE i \in 1..Len(cache) : cache[i].key = key].value

\* a faulty variant: nothing is evicted
StoredWithoutEviction(cache, cache_key, ctx) ==
    Append(cache, [key |-> cache_key, value |-> ctx])

\* the dict after file_context has been stored under cache_key
Stored(cache, cache_key, ctx) ==
    Append(IF Len(cache) >= FILE_CONTEXT_CACHE_SIZE THEN Tail(cache) ELSE cache,
           [key |-> cache_key, value |-> ctx])

Generated(cache, fp, ctx, searched) ==
    [context |-> ctx, cache |-> Stored(cache, fp, ctx),
     searched |-> searched]

\* the miss: the two main queries are searched when a retriever is loaded
GenerateContext(cache, retr, fp, main) ==
    IF retr # <<>> THEN Generated(cache, fp, SearchAll(retr[1], main), main)
    ELSE Generated(cache, fp, <<>>, <<>>)

FirstTwo(search_queries) == SubSeq(search_queries, 1, Min({2, Len(search_queries)}))

\* a faulty variant: a stored empty context does not count as a hit
get_file_context_unless_empty(cache, retr, fp, text, order) ==
    IF fp \in CacheKeys(cache) /\ CacheValue(cache, fp) # <<>>
    THEN [context |-> CacheValue(cache, fp), cache |-> cache, searched |-> <<>>]
    ELSE GenerateContext(cache, retr, fp,
                         FirstTwo(generate_search_queries(fp, text, order)))

\* a faulty variant: a hit moves the entry to the young end (least recently used
\* goes first)
get_file_context_lru(cache, retr, fp, text, order) ==
    IF fp \in CacheKeys(cache)
    THEN [context |-> CacheValue(cache, fp),
          cache |-> SelectSeq(cache, LAMBDA e : e.key # fp)
                    \o <<[key |-> fp, value |-> CacheValue(cache, fp)]>>,
          searched |-> <<>>]
    ELSE GenerateContext(cache, retr, fp,
                         FirstTwo(generate_search_queries(fp, text, order)))

\* HybridRailsAnalyzer._get_file_context: the context returned, the cache
\* afterwards and the queries searched on the way
get_file_context(cache, retr, fp, text, order) ==
    IF fp \in CacheKeys(cache)
    THEN [context |-> CacheValue(cache, fp), cache |-> cache, searched |-> <<>>]
    ELSE GenerateContext(cache, retr, fp,
                         FirstTwo(generate_search_queries(fp, text, order)))

\* the queries _get_file_context searches on a miss
MainQueries(cache, retr, fp, text, order) ==
    IF fp \in CacheKeys(cache) \/ retr = <<>> THEN <<>>
    ELSE FirstTwo(generate_search_queries(fp, text, order))

\* _get_file_context does not return: one of its searches raises
ContextRaises(cache, retr, fp, text, order) ==
    /\ retr # <<>>
    /\ AnySearchRaises(retr[1], MainQueries(cache, retr, fp, text, order))

Suggestion(it, tr, ln, oc, rc, ex, cf, mc) ==
    [issue_type |-> it, tier |-> tr, line_number |-> ln, original_code |-> oc,
     refactored_code |-> rc, explanation |-> ex, confidence |-> cf,
     method_context |-> mc]

IsMassIssue(issue) ==
    issue.pattern_type \in {"mass_assignment", "mass_assignment_with_deprecation"}

\* a faulty variant: the replacement text alone, not substituted into the line
ReplacementAlone(issue, rules, i) ==
    Suggestion(issue.pattern_type, "tier1", issue.line_number, issue.line_content,
               IF i = 0 THEN issue.line_content ELSE rules[i].replacement,
               <<IF i = 0 THEN "Deprecation fixed" ELSE rules[i].name>>,
               issue.confidence, <<>>)

\* the direct replacement with rule i of rules (no rule when i = 0); the
\* explanation, pattern_info['explanation'], is written as the rule's name
SimpleFix(issue, rules, i) ==
    Suggestion(issue.pattern_type, "tier1", issue.line_number, issue.line_content,
               IF i = 0 THEN issue.line_content
               ELSE ReSub(rules[i].pattern, rules[i].replacement, issue.line_content,
                          FALSE),
               <<IF i = 0 THEN "Deprecation fixed" ELSE rules[i].name>>,
               issue.confidence, <<>>)

\* HybridRailsAnalyzer._process_tier1_issue; response is what self.llm.generate
\* returns for the strong-parameters prompt (read on the mass-assignment path only)
process_tier1_issue(issue, response) ==
    IF IsMassIssue(issue)
    THEN Suggestion(issue.pattern_type, "tier1", issue.line_number, issue.line_content,
                    extract_ruby_code(clean_llm_response(response)),
                    <<"Mass assignment vulnerability fixed with strong parameters">>,
                    issue.confidence, issue.method_context)
    ELSE SimpleFix(issue, simple_patterns, RuleIndex(issue.pattern_type, simple_patterns))

\* the phrases of the explicit no-change check, in lower case
no_change_phrases ==
    { <<"no_change_needed">>, <<"no", " ", "change">>, <<"compatible">>,
      <<"already", " ", "valid">>, <<"doesn", "'", "t", " ", "require">>,
      <<"no", " ", "update">>, <<"same", " ", "as", " ", "before">> }

\* no_change_prefixes, in lower case
no_change_prefixes ==
    { <<"no_change_needed">>, <<"no", " ", "change">>, <<"same">>, <<"unchanged">>,
      <<"#", " ", "no", " ", "change">>, <<"#", " ", "code", " ", "here">>, <<"~~~">>,
      <<"**">>, <<"...">>, <<"change", " ", "needed">> }

UPDATED_CODE == <<"UPDATED_CODE", ":">>
EXPLANATION == <<"EXPLANATION", ":">>

\* re.sub(r'\n?```$', '', code)
StripClosingFence(code) ==
    IF EndsWith(code, <<NL, "~~~">>) THEN SubSeq(code, 1, Len(code) - 2)
    ELSE IF EndsWith(code, <<"~~~">>) THEN SubSeq(code, 1, Len(code) - 1)
    ELSE code

\* re.sub(r'^```[a-z]*\n?', '', code), the opening fence ending before position e
StripOpeningFence(code, e) == IF e = 0 THEN code ELSE SubSeq(code, e, Len(code))

StripFences(code) ==
    StripClosingFence(
        StripOpeningFence(code,
            MatchFrom(<<Lit("~~~"), Star(LetterToks), Opt({NL})>>, 1, code, 1, FALSE)))

\* a faulty variant: the no-change prefixes are not looked for
ValidatedWithoutPrefixes(updated_code, line_content) ==
    IF updated_code # <<>> /\ updated_code # Strip(line_content)
    THEN <<updated_code>>
    ELSE <<>>

\* the validation of updated_code: <<>> (None) or <<updated_code>>
Validated(updated_code, line_content) ==
    IF updated_code # <<>> /\ updated_code # Strip(line_content)
    THEN (IF \E pre \in no_change_prefixes : StartsWithLower(updated_code, pre)
          THEN <<>> ELSE <<updated_code>>)
    ELSE <<>>

\* the parse of the cleaned response in _process_tier2_issue: <<>> (None) or
\* <<updated_code>>
ParseUpdatedCode(response, line_content) ==
    IF ~Contains(response, UPDATED_CODE) THEN <<>>
    ELSE Validated(Strip(StripFences(Strip(BeforeFirst(AfterFirst(response, UPDATED_CODE),
                                                       EXPLANATION)))),
                   line_content)

ParseExplanation(response) ==
    IF Contains(response, EXPLANATION)
    THEN Strip(SplitLines(Strip(AfterFirst(response, EXPLANATION)))[1])
    ELSE <<"Analyzed for Rails compatibility">>

\* the final validation and the dict returned
Tier2Suggestion(issue, response, parsed) ==
    IF parsed = <<>> THEN <<>>
    ELSE IF Strip(parsed[1]) = Strip(issue.line_content) THEN <<>>
    ELSE << Suggestion(issue.pattern_type, "tier2", issue.line_number,
                       issue.line_content, parsed[1], ParseExplanation(response),
                       issue.confidence, <<>>) >>

\* _process_tier2_issue from the cleaned response on
ParseResponse(issue, response) ==
    IF ContainsAnyLower(response, no_change_phrases) THEN <<>>
    ELSE Tier2Suggestion(issue, response,
                         ParseUpdatedCode(response, issue.line_content))

\* HybridRailsAnalyzer._process_tier2_issue: <<>> (None) or <<suggestion>>;
\* raw is what self.llm.generate returns
process_tier2_issue(issue, raw) == ParseResponse(issue, clean_llm_response(raw))

\* the query of the legacy branch of _process_tier2_issue
LegacyQuery(issue) == <<"Rails deprecation ">> \o issue.line_content

\* queries _process_tier2_issue searches: the legacy branch runs when the cached
\* context is empty and a retriever is loaded
Tier2IssueSearches(retr, ctx, issue) ==
    IF ctx = <<>> /\ retr # <<>> THEN <<LegacyQuery(issue)>> ELSE <<>>

(***************************************************************************)
(* local_llm.py: what LocalLLM.generate may return                         *)
(***************************************************************************)
\* the watchdog's fallback text
TimeoutFallback ==
    <<"NO_CHANGE_NEEDED", NL, "EXPLANATION", ":", " ", "Generation timed out", ",",
      " ", "manual review recommended">>

\* the text returned when generation raises
ErrorFallback == <<"Error generating response", ":", " ", "x">>

Explained(code) ==
    UPDATED_CODE \o <<" ">> \o code \o <<NL>> \o EXPLANATION \o <<" ", "Use the new API">>

\* texts the generator may produce for a prompt about line: the fallbacks, an
\* answer in the requested layout (a fix, or the line echoed back), a rewritten
\* method followed by prose, the bare line
Generations(line) ==
    { TimeoutFallback, ErrorFallback,
      Explained(<<"before_action", " ", ":", "authenticate_user", "!">>),
      Explained(<<" ">> \o line \o <<" ">>),
      <<"def", " ", "update", NL, " ", "if", " ", "x", NL, " ", " ", "y", NL, " ",
        "end", NL, "end", NL, "This method is now safe">>,
      <<"~~~", "ruby", NL>> \o line \o <<NL, "~~~">> }

(***************************************************************************)
(* HybridRailsAnalyzer.analyze_file as a state machine                     *)
(***************************************************************************)
MaxFileLines == 2

\* lines of the files under analysis
BeforeFilterLine == <<"before_filter", " ", ":", "authenticate_user", "!">>
NewParamsLine ==
    <<" ", " ", "@", "user", " ", "=", " ", "User", ".", "new", "(", "params", "[", ":",
      "user", "]", ")">>
SessionStoreLine ==
    <<"Rails", ".", "application", ".", "config", ".", "session_store", " ", ":",
      "cookie_store">>
FindUpdateLine ==
    <<"Item", ".", "find_by_", "id", "(", "id", ")", ".", "update", "(", "params", "[",
      ":", "item", "]", ")">>
CommentedRiskLine == <<"#", " ", "User", ".", "new", "(", "params", ")">>
UpdateAttributesLine ==
    <<"user", ".", "update_attributes", "(", "params", "[", ":", "user", "]", ")">>
PlainLine == <<"x", " ", "=", " ", "y">>

FileLines ==
    {BeforeFilterLine, NewParamsLine, SessionStoreLine, FindUpdateLine,
     CommentedRiskLine, UpdateAttributesLine, PlainLine}

\* sequences over S of length at most n
SeqsUpTo(S, n) == UNION {[1..m -> S] : m \in 0..n}

ControllerPath == <<"app", "/", "controller", "s", "/", "users_", "controller", ".", "rb">>
ModelPath == <<"app", "/", "model", "s", "/", "user", ".", "rb">>
GemfilePath == <<"Gemfile">>
LocalePath == <<"locales", "/", "en", ".", "yml">>
FilePaths == {ControllerPath, ModelPath, GemfilePath, LocalePath}

\* the knowledge base Retriever loads: documents of a built index, with metas
KnowledgeBase ==
    << [vec |-> <<1, 0>>, meta |-> [source |-> "controllers_guide"]],
       [vec |-> <<0, 1>>, meta |-> [source |-> "models_guide"]] >>

\* the knowledge base of an index built from no documents: every search
\* returns no hits
EmptyKnowledgeBase == <<>>

\* tokens with "rails" inside, whatever the case
RailsLikeToks == {"rails", "Rails", "_rails"}

\* tier2_should_run of analyze_file
\* a faulty variant: the gate without the clause for every .rb file
tier2_should_run_if_needed(fp, text) ==
    \/ needs_tier2_analysis(fp, text)
    \/ \E i \in 1..Len(text) : text[i] \in RailsLikeToks
    \/ ContainsLower(fp, <<"config">>)

tier2_should_run(fp, text) ==
    \/ needs_tier2_analysis(fp, text)
    \/ EndsWith(fp, <<".", "rb">>)
    \/ \E i \in 1..Len(text) : text[i] \in RailsLikeToks
    \/ ContainsLower(fp, <<"config">>)

\* the history of insertions after a call that turned cache before into after
InsertedAfter(hist, before, after) ==
    SelectSeq(hist, LAMBDA k : k \in CacheKeys(after))
    \o SelectSeq([i \in 1..Len(after) |-> after[i].key],
                 LAMBDA k : k \notin CacheKeys(before))

\* a file on disk; open() raises on one that is not readable
File(fp, text, readable) == [path |-> fp, text |-> text, readable |-> readable]

\* can open(fp).read() succeed, and what it returns
CanRead(disk, fp) == \E i \in 1..Len(disk) : disk[i].path = fp /\ disk[i].readable
TextOf(disk, fp) == disk[CHOOSE i \in 1..Len(disk) : disk[i].path = fp].text

\* the disks analyze_file may meet for fp: the file with some text, the file
\* without read permission, no such file
Disks(fp) ==
    {<<File(fp, JoinLines(ls), TRUE)>> : ls \in SeqsUpTo(FileLines, MaxFileLines)}
    \cup {<<File(fp, BeforeFilterLine, FALSE)>>, <<>>}

Init ==
    /\ file_path \in FilePaths
    /\ fs \in Disks(file_path)
    /\ content = <<>>
    /\ retriever \in {<<>>, <<KnowledgeBase>>, <<EmptyKnowledgeBase>>}
    /\ pc = "start"
    /\ tier1_issues = <<>>
    /\ tier2_issues = <<>>
    /\ suggestions = <<>>
    /\ pending = <<>>
    /\ file_context = <<>>
    /\ file_context_cache = <<>>
    /\ search_log = <<>>
    /\ llm_calls = 0
    /\ arg = <<>>
    /\ ret = <<>>
    /\ inserted = <<>>
    /\ opened = 0
    /\ ruby_files = <<>>
    /\ file_no = 0
    /\ project_results = <<>>
    /\ skipped = <<>>
    /\ calls = <<>>
    /\ threads = <<>>

\* the dict analyze_file returns
Results(fp, t1, t2, sugg) ==
    << [file_path |-> fp, tier1_issues |-> t1, tier2_issues |-> t2,
        total_issues |-> Len(t1) + Len(t2), suggestions |-> sugg] >>

ReadError == << [error |-> "Failed to read file"] >>

\* a faulty variant: the exception is swallowed and the analysis goes on with
\* an empty text
ReadFailsAndGoesOn ==
    /\ pc = "start"
    /\ ~CanRead(fs, file_path)
    /\ opened' = opened + 1
    /\ pc' = "tier1"
    /\ UNCHANGED <<file_path, content, tier1_issues, tier2_issues, suggestions, pending,
                   file_context, file_context_cache, retriever, search_log, llm_calls,
                   arg, ret, inserted, fs, ruby_files, file_no, project_results, skipped, calls, threads>>

\* analyze_file when open() or read() raises: the error dict is returned
ReadFails ==
    /\ pc = "start"
    /\ ~CanRead(fs, file_path)
    /\ opened' = opened + 1
    /\ ret' = ReadError
    /\ pc' = "done"
    /\ UNCHANGED <<file_path, content, tier1_issues, tier2_issues, suggestions, pending,
                   file_context, file_context_cache, retriever, search_log, llm_calls,
                   arg, inserted, fs, ruby_files, file_no, project_results, skipped, calls, threads>>

\* a faulty variant: Tier 1 detection is left out when no retriever is loaded
Tier1DetectNeedsRetriever ==
    /\ pc = "start"
    /\ CanRead(fs, file_path)
    /\ opened' = opened + 1
    /\ content' = TextOf(fs, file_path)
    /\ tier1_issues' = IF retriever = <<>> THEN <<>>
                       ELSE detect_all_tier1_issues(file_path, content')
    /\ pending' = tier1_issues'
    /\ pc' = "tier1"
    /\ UNCHANGED <<file_path, tier2_issues, suggestions, file_context,
                   file_context_cache, retriever, search_log, llm_calls, arg, ret,
                   inserted, fs, ruby_files, file_no, project_results, skipped, calls, threads>>

\* analyze_file up to the end of Tier 1 detection
Tier1Detect ==
    /\ pc = "start"
    /\ CanRead(fs, file_path)
    /\ opened' = opened + 1
    /\ content' = TextOf(fs, file_path)
    /\ tier1_issues' = detect_all_tier1_issues(file_path, content')
    /\ pending' = tier1_issues'
    /\ pc' = "tier1"
    /\ UNCHANGED <<file_path, tier2_issues, suggestions, file_context,
                   file_context_cache, retriever, search_log, llm_calls, arg, ret,
                   inserted, fs, ruby_files, file_no, project_results, skipped, calls, threads>>

\* one turn of the loop over tier1_issues
ProcessTier1Issue ==
    /\ pc = "tier1"
    /\ pending # <<>>
    /\ \E response \in (IF IsMassIssue(Head(pending))
                        THEN Generations(Head(pending).line_content) ELSE {<<>>}) :
          suggestions' = Append(suggestions, process_tier1_issue(Head(pending), response))
    /\ llm_calls' = llm_calls + (IF IsMassIssue(Head(pending)) THEN 1 ELSE 0)
    /\ pending' = Tail(pending)
    /\ UNCHANGED <<file_path, content, pc, tier1_issues, tier2_issues, file_context,
                   file_context_cache, retriever, search_log, arg, ret, inserted, opened, fs, ruby_files, file_no, project_results, skipped, calls, threads>>

\* a faulty variant: every Tier 2 issue is processed, however many there are
Tier2ResultsWithoutLimit(got, rag) ==
    /\ file_context' = got.context
    /\ file_context_cache' = got.cache
    /\ inserted' = InsertedAfter(inserted, file_context_cache, got.cache)
    /\ tier2_issues' = rag.issues
    /\ pending' = rag.issues
    /\ search_log' = search_log \o got.searched \o rag.searched

\* the results of the Tier 2 detection: got is what _get_file_context returned,
\* rag what analyze_with_rag returned
Tier2Results(got, rag) ==
    /\ file_context' = got.context
    /\ file_context_cache' = got.cache
    /\ inserted' = InsertedAfter(inserted, file_context_cache, got.cache)
    /\ tier2_issues' = rag.issues
    /\ pending' = IF Len(rag.issues) > 5 THEN <<>> ELSE rag.issues
    /\ search_log' = search_log \o got.searched \o rag.searched

Tier2Analysis(got, order) ==
    Tier2Results(got, analyze_with_rag(retriever, file_path, content, got.context, order))

\* the Tier 2 gate, the cached file context and analyze_with_rag; with more than
\* five Tier 2 issues the loop skips every one of them
Tier2Detect ==
    /\ pc = "tier1"
    /\ pending = <<>>
    /\ tier2_should_run(file_path, content)
    /\ \E order \in Orders(ConfigMethods(content)) :
          /\ ~ContextRaises(file_context_cache, retriever, file_path, content, order)
          /\ Tier2Analysis(get_file_context(file_context_cache, retriever, file_path,
                                            content, order), order)
    /\ opened' = opened + (IF OpensForIndicators(file_path) THEN 1 ELSE 0)
    /\ pc' = "tier2"
    /\ UNCHANGED <<file_path, content, tier1_issues, suggestions, retriever, llm_calls,
                   arg, ret, fs, ruby_files, file_no, project_results, skipped, calls, threads>>

\* the gate is closed: results are returned with no Tier 2 issues
Tier2NotNeeded ==
    /\ pc = "tier1"
    /\ pending = <<>>
    /\ ~tier2_should_run(file_path, content)
    /\ ret' = Results(file_path, tier1_issues, <<>>, suggestions)
    /\ pc' = "done"
    /\ UNCHANGED <<file_path, content, tier1_issues, tier2_issues, suggestions, pending,
                   file_context, file_context_cache, retriever, search_log, llm_calls,
                   arg, inserted, opened, fs, ruby_files, file_no, project_results, skipped, calls, threads>>

\* one turn of the loop over tier2_issues
ProcessTier2Issue ==
    /\ pc = "tier2"
    /\ pending # <<>>
    /\ \E raw \in Generations(Head(pending).line_content) :
          suggestions' = suggestions \o process_tier2_issue(Head(pending), raw)
    /\ search_log' = search_log \o Tier2IssueSearches(retriever, file_context,
                                                      Head(pending))
    /\ llm_calls' = llm_calls + 1
    /\ pending' = Tail(pending)
    /\ UNCHANGED <<file_path, content, pc, tier1_issues, tier2_issues, file_context,
                   file_context_cache, retriever, arg, ret, inserted, opened, fs, ruby_files, file_no, project_results, skipped, calls, threads>>

Return ==
    /\ pc = "tier2"
    /\ pending = <<>>
    /\ ret' = Results(file_path, tier1_issues, tier2_issues, suggestions)
    /\ pc' = "done"
    /\ UNCHANGED <<file_path, content, tier1_issues, tier2_issues, suggestions, pending,
                   file_context, file_context_cache, retriever, search_log, llm_calls,
                   arg, inserted, opened, fs, ruby_files, file_no, project_results, skipped, calls, threads>>

Next ==
    \/ ReadFails
    \/ Tier1Detect
    \/ ProcessTier1Issue
    \/ Tier2Detect
    \/ Tier2NotNeeded
    \/ ProcessTier2Issue
    \/ Return

Spec == Init /\ [][Next]_vars

(***************************************************************************)
(* The pure functions, each called once on an input drawn from a corpus     *)
(***************************************************************************)
\* the variables of analyze_file, which a call of a pure function leaves alone
analysis ==
    <<file_path, content, tier1_issues, tier2_issues, suggestions, pending, file_context,
      file_context_cache, retriever, search_log, llm_calls, inserted, opened, fs, ruby_files, file_no, project_results, skipped, calls, threads>>

\* no analysis is running
Idle ==
    /\ file_path = <<>>
    /\ content = <<>>
    /\ tier1_issues = <<>>
    /\ tier2_issues = <<>>
    /\ suggestions = <<>>
    /\ pending = <<>>
    /\ file_context = <<>>
    /\ file_context_cache = <<>>
    /\ search_log = <<>>
    /\ llm_calls = 0
    /\ inserted = <<>>
    /\ opened = 0
    /\ fs = <<>>
    /\ ruby_files = <<>>
    /\ file_no = 0
    /\ project_results = <<>>
    /\ skipped = <<>>
    /\ calls = <<>>
    /\ threads = <<>>

(***************************************************************************)
(* code_parser.find_mass_assignment_risks on controller texts               *)
(***************************************************************************)
MaxRiskLines == 3

RequireGuardLine ==
    <<"User", ".", "new", "(", "params", ")", " ", "if", " ", "params", ".", "require",
      "(", ":", "user", ")">>
PermitGuardLine ==
    <<"User", ".", "create", "(", "params", "[", ":", "user", "]", ")", " ", "if", " ",
      "params", "[", ":", "user", "]", ".", "permit", "(", ":", "name", ")">>
EndlessParamsLine ==
    <<"def", " ", "user_params", " ", "=", " ", "User", ".", "new", "(", "params", ")">>

RiskLines ==
    {NewParamsLine, CommentedRiskLine, RequireGuardLine, PermitGuardLine,
     EndlessParamsLine, PlainLine}

InitRisks ==
    /\ Idle
    /\ retriever = <<>>
    /\ arg \in {JoinLines(ls) : ls \in SeqsUpTo(RiskLines, MaxRiskLines)}
    /\ ret = <<>>
    /\ pc = "call"

FindMassAssignmentRisks ==
    /\ pc = "call"
    /\ ret' = find_mass_assignment_risks(arg)
    /\ pc' = "done"
    /\ UNCHANGED <<analysis, arg>>

NextRisks == FindMassAssignmentRisks

SpecRisks == InitRisks /\ [][NextRisks]_vars

(***************************************************************************)
(* code_parser.extract_method_context on file texts and line numbers        *)
(***************************************************************************)
MaxMethodLines == 4

DefLine == <<"def", " ", "create">>
IndentedDefLine == <<" ", " ", "def", " ", "update">>
EndLine == <<"end">>
IfLine == <<" ", " ", "if", " ", "x">>
IndentedEndLine == <<" ", " ", "end">>

MethodLines == {DefLine, IndentedDefLine, EndLine, IfLine, IndentedEndLine, PlainLine}

InitMethod ==
    /\ Idle
    /\ retriever = <<>>
    /\ arg \in {[file_content |-> JoinLines(ls), line_number |-> n] :
                   ls \in SeqsUpTo(MethodLines, MaxMethodLines),
                   n \in 0..(MaxMethodLines + 1)}
    /\ ret = <<>>
    /\ pc = "call"

ExtractMethodContext ==
    /\ pc = "call"
    /\ ret' = extract_method_context(arg.file_content, arg.line_number)
    /\ pc' = "done"
    /\ UNCHANGED <<analysis, arg>>

NextMethod == ExtractMethodContext

SpecMethod == InitMethod /\ [][NextMethod]_vars

(***************************************************************************)
(* HybridRailsAnalyzer._extract_ruby_code on a definition followed by prose *)
(***************************************************************************)
MaxBodyUnits == 2

\* the units a method body is made of: a statement, and blocks closed by their
\* own end line
BodyUnits ==
    { << <<" ", " ", "y">> >>,
      << <<" ", " ", "save">> >>,
      << <<" ", " ", "if", " ", "x">>, <<" ", " ", " ", " ", "y">>,
         <<" ", " ", "end">> >>,
      << <<" ", " ", "x", " ", "do">>, <<" ", " ", " ", " ", "y">>,
         <<" ", " ", "end">> >> }

RECURSIVE Flatten(_)
Flatten(units) == IF units = <<>> THEN <<>> ELSE Head(units) \o Flatten(Tail(units))

\* one balanced definition: def, the body, the closing end
Definitions ==
    {<< <<"def", " ", "update">> >> \o Flatten(body) \o << <<"end">> >> :
        body \in SeqsUpTo(BodyUnits, MaxBodyUnits)}

TrailingProse ==
    {<<"This method is now safe">>, <<"Use the new API">>,
     <<"Remove this line", ".">>}

InitSanitize ==
    /\ Idle
    /\ retriever = <<>>
    /\ arg \in {[definition |-> JoinLines(d), response |-> JoinLines(Append(d, p))] :
                   d \in Definitions, p \in TrailingProse}
    /\ ret = <<>>
    /\ pc = "call"

ExtractRubyCode ==
    /\ pc = "call"
    /\ ret' = extract_ruby_code(arg.response)
    /\ pc' = "done"
    /\ UNCHANGED <<analysis, arg>>

NextSanitize == ExtractRubyCode

SpecSanitize == InitSanitize /\ [][NextSanitize]_vars

(***************************************************************************)
(* Retriever.search on an unchanged index                                   *)
(***************************************************************************)
MaxDocs == 3
MaxK == 4

\* the documents an index may hold
Docs ==
    {[vec |-> v, meta |-> [source |-> "guide"]] :
        v \in {<<1, 0>>, <<0, 1>>, <<0, 0 - 1>>}}

Queries ==
    { <<"ActionController deprecation">>, <<"ActiveRecord model deprecation">>,
      <<"Rails gem version compatibility">>, <<"Rails upgrade deprecation">> }

InitSearch ==
    /\ Idle
    /\ retriever \in {<<index>> : index \in SeqsUpTo(Docs, MaxDocs)}
    /\ arg \in {[query |-> q, top_k |-> k] : q \in Queries, k \in 0..MaxK}
    /\ ret = <<>>
    /\ pc = "call"

RetrieverSearch ==
    /\ pc = "call"
    /\ ret' = Search(retriever[1], arg.query, arg.top_k)
    /\ pc' = "done"
    /\ UNCHANGED <<analysis, arg>>

NextSearch == RetrieverSearch

SpecSearch == InitSearch /\ [][NextSearch]_vars

(***************************************************************************)
(* HybridRailsAnalyzer._get_file_context, called again and again on one     *)
(* analyzer whose cache earlier analyses have nearly filled                 *)
(***************************************************************************)
\* free slots of the cache at the start
Headroom == 2

\* the file of the n-th earlier analysis
EarlierPath(n) == <<"lib", "/", "task", ToString(n), ".", "rb">>

\* what the analysis of the n-th earlier file stored: its context, generated on
\* a miss
EarlierEntry(retr, n) ==
    [key |-> EarlierPath(n),
     value |-> get_file_context(<<>>, retr, EarlierPath(n), <<>>, <<>>).context]

\* the cache after the first n earlier analyses, n below the capacity: one
\* entry per file, in the order of the analyses
CacheAfter(retr, n) == [i \in 1..n |-> EarlierEntry(retr, i)]

\* the files context is requested for: the oldest earlier one and four more
RequestPaths == {EarlierPath(1), ControllerPath, ModelPath, GemfilePath, LocalePath}

RequestContents == {<<>>, BeforeFilterLine}

InitCache ==
    /\ file_path = <<>>
    /\ content = <<>>
    /\ tier1_issues = <<>>
    /\ tier2_issues = <<>>
    /\ suggestions = <<>>
    /\ pending = <<>>
    /\ file_context = <<>>
    /\ retriever \in {<<>>, <<KnowledgeBase>>}
    /\ file_context_cache = CacheAfter(retriever, FILE_CONTEXT_CACHE_SIZE - Headroom)
    /\ inserted = [n \in 1..Len(file_context_cache) |-> file_context_cache[n].key]
    /\ search_log = <<>>
    /\ llm_calls = 0
    /\ arg = <<>>
    /\ ret = <<>>
    /\ pc = "idle"
    /\ opened = 0
    /\ fs = <<>>
    /\ ruby_files = <<>>
    /\ file_no = 0
    /\ project_results = <<>>
    /\ skipped = <<>>
    /\ calls = <<>>
    /\ threads = <<>>

\* what one call leaves behind: got is what _get_file_context returned
ContextResults(got) ==
    /\ file_context' = got.context
    /\ file_context_cache' = got.cache
    /\ inserted' = InsertedAfter(inserted, file_context_cache, got.cache)
    /\ search_log' = got.searched

\* one call of _get_file_context(fp, text)
GetFileContext ==
    /\ \E fp \in RequestPaths, text \in RequestContents :
          /\ file_path' = fp
          /\ content' = text
          /\ pc' = IF fp \in CacheKeys(file_context_cache) THEN "hit" ELSE "miss"
          /\ \E order \in Orders(ConfigMethods(text)) :
                ContextResults(get_file_context(file_context_cache, retriever, fp, text,
                                                order))
    /\ UNCHANGED <<tier1_issues, tier2_issues, suggestions, pending, retriever,
                   llm_calls, arg, ret, opened, fs, ruby_files, file_no, project_results, skipped, calls, threads>>

NextCache == GetFileContext

SpecCache == InitCache /\ [][NextCache]_vars

(***************************************************************************)
(* Tier 1 on a controller whose update method holds a mass assignment       *)
(***************************************************************************)
MaxUpdateUnits == 2

Indent(line, n) == [i \in 1..n |-> " "] \o line
IndentAll(lines, n) == [i \in 1..Len(lines) |-> Indent(lines[i], n)]

ClassLine == <<"class", " ", "UsersController">>
UpdateDefLine == <<"def", " ", "update">>
UpdateCallLine ==
    <<"@", "user", ".", "update_attributes", "(", "params", "[", ":", "user", "]", ")">>
IfOpenLine == <<"if", " ", "x">>
DoOpenLine == <<"x", ".", "each", " ", "do">>

\* what the body of update is made of: a statement, the flagged call, the call
\* inside an if block, inside a do block, inside an if block inside a do block
UpdateUnits ==
    { <<PlainLine>>,
      <<UpdateCallLine>>,
      <<IfOpenLine, Indent(UpdateCallLine, 2), EndLine>>,
      <<DoOpenLine, Indent(UpdateCallLine, 2), EndLine>>,
      <<DoOpenLine, Indent(IfOpenLine, 2), Indent(UpdateCallLine, 4), Indent(EndLine, 2),
        EndLine>> }

UpdateBodies ==
    {Flatten(us) : us \in {u \in SeqsUpTo(UpdateUnits, MaxUpdateUnits) :
                              \E i \in 1..Len(u) : u[i] # <<PlainLine>>}}

\* the controller text: the method alone, or inside the class (indented by two);
\* def_line and end_line are where the method's def and its own end are written
UpdateFile(body, in_class) ==
    IF in_class
    THEN [text |-> JoinLines(<<ClassLine>> \o IndentAll(<<UpdateDefLine>>, 2)
                             \o IndentAll(body, 4) \o IndentAll(<<EndLine>>, 2)
                             \o <<EndLine>>),
          def_line |-> 2, end_line |-> Len(body) + 3]
    ELSE [text |-> JoinLines(<<UpdateDefLine>> \o IndentAll(body, 2) \o <<EndLine>>),
          def_line |-> 1, end_line |-> Len(body) + 2]

InitUpdate ==
    /\ arg \in {UpdateFile(body, in_class) : body \in UpdateBodies, in_class \in BOOLEAN}
    /\ file_path = ControllerPath
    /\ fs = <<File(ControllerPath, arg.text, TRUE)>>
    /\ content = <<>>
    /\ retriever = <<>>
    /\ pc = "start"
    /\ tier1_issues = <<>>
    /\ tier2_issues = <<>>
    /\ suggestions = <<>>
    /\ pending = <<>>
    /\ file_context = <<>>
    /\ file_context_cache = <<>>
    /\ search_log = <<>>
    /\ llm_calls = 0
    /\ ret = <<>>
    /\ inserted = <<>>
    /\ opened = 0
    /\ ruby_files = <<>>
    /\ file_no = 0
    /\ project_results = <<>>
    /\ skipped = <<>>
    /\ calls = <<>>
    /\ threads = <<>>

NextUpdate ==
    \/ Tier1Detect
    \/ ProcessTier1Issue

SpecUpdate == InitUpdate /\ [][NextUpdate]_vars

(***************************************************************************)
(* HybridRailsAnalyzer.analyze_project: the walk, the loop over the files,  *)
(* each analysed by analyze_file, and the summary                           *)
(***************************************************************************)
MaxProjectFiles == 2

\* an index with more vectors than the metadata file has lines: the last
\* document has no meta (its source is None)
StaleKnowledgeBase ==
    KnowledgeBase
    \o << [vec |-> <<0 - 1, 0>>, meta |-> [source |-> "gems_guide"]],
          [vec |-> <<0, 0 - 1>>, meta |-> [source |-> None]] >>

ItemPath == <<"app", "/", "model", "s", "/", "item", ".", "rb">>
VendorPath == <<"vendor", "/", "gem", ".", "rb">>
ReadmePath == <<"README">>

ProjectFiles ==
    { File(ControllerPath, BeforeFilterLine, TRUE),
      File(ModelPath, SessionStoreLine, TRUE),
      File(GemfilePath, PlainLine, TRUE),
      File(LocalePath, PlainLine, TRUE),
      File(ItemPath, BeforeFilterLine, FALSE),
      File(VendorPath, BeforeFilterLine, TRUE),
      File(ReadmePath, PlainLine, TRUE) }

\* the disks: up to MaxProjectFiles different files, in the order of the walk
ProjectDisks ==
    {d \in SeqsUpTo(ProjectFiles, MaxProjectFiles) :
        \A i, j \in 1..Len(d) : i # j => d[i].path # d[j].path}

skip_dirs == {".git", "node_modules", "tmp", "log", "vendor", ".bundle"}

\* fp lies in a directory the walk prunes
InSkippedDir(fp) ==
    \E i \in 1..(Len(fp) - 1) :
        fp[i] \in skip_dirs /\ fp[i + 1] = "/" /\ (i = 1 \/ fp[i - 1] = "/")

\* file.endswith('.rb') or file == 'Gemfile' or file.endswith('.yml')
IsCollected(fp) ==
    /\ ~InSkippedDir(fp)
    /\ \/ EndsWith(fp, <<".", "rb">>)
       \/ EndsWith(fp, <<".", "yml">>)
       \/ (fp[Len(fp)] = "Gemfile" /\ (Len(fp) = 1 \/ fp[Len(fp) - 1] = "/"))

\* os.walk(project_path) with its default onerror: a directory that is missing
\* or cannot be listed yields nothing, and no exception
WalkFiles(dir, disk) ==
    IF dir # "listable" THEN <<>>
    ELSE SelectSeq([i \in 1..Len(disk) |-> disk[i].path], IsCollected)

\* dict.get(field, default)
Get(d, field, default) == IF field \in DOMAIN d THEN d[field] ELSE default

\* a faulty variant: a result that reports a read error is not counted as analysed
CollectedUnlessError(pr, file_result) ==
    [pr EXCEPT !.file_results = Append(@, file_result),
               !.analyzed_files = @ + (IF "error" \in DOMAIN file_result THEN 0 ELSE 1),
               !.files_with_issues =
                   @ + (IF Get(file_result, "total_issues", 0) > 0 THEN 1 ELSE 0),
               !.total_suggestions = @ + Len(Get(file_result, "suggestions", <<>>))]

\* project_results after the result of one file has been taken in
Collected(pr, file_result) ==
    [pr EXCEPT !.file_results = Append(@, file_result),
               !.analyzed_files = @ + 1,
               !.files_with_issues =
                   @ + (IF Get(file_result, "total_issues", 0) > 0 THEN 1 ELSE 0),
               !.total_suggestions = @ + Len(Get(file_result, "suggestions", <<>>))]

RECURSIVE AllSuggestions(_)
AllSuggestions(file_results) ==
    IF file_results = <<>> THEN <<>>
    ELSE Get(Head(file_results), "suggestions", <<>>) \o AllSuggestions(Tail(file_results))

\* summary["issue_types"]: the number of suggestions of each issue_type
IssueTypes(sugg) ==
    [t \in {sugg[i].issue_type : i \in 1..Len(sugg)} |->
        Cardinality({i \in 1..Len(sugg) : sugg[i].issue_type = t})]

priority_areas ==
    << [area |-> "Security Issues", issue_types |-> <<"mass_assignment", "attr_accessible">>],
       [area |-> "Test Framework",
        issue_types |-> <<"test_case_inheritance", "action_view_test_case">>],
       [area |-> "Configuration",
        issue_types |-> <<"session_store_config", "static_cache_control_config">>],
       [area |-> "ActiveRecord",
        issue_types |-> <<"belongs_to_required", "find_by_dynamic_methods">>],
       [area |-> "ActionController",
        issue_types |-> <<"before_filter_deprecation", "update_attributes_deprecation">>] >>

AreaCount(counts, area) ==
    Get(counts, area.issue_types[1], 0) + Get(counts, area.issue_types[2], 0)

\* summary["upgrade_priority"]: the areas with at least one suggestion
UpgradePriority(counts) ==
    SelectSeq([i \in 1..Len(priority_areas) |->
                  [area |-> priority_areas[i].area,
                   issues |-> AreaCount(counts, priority_areas[i])]],
              LAMBDA a : a.issues > 0)

\* _generate_project_summary (issue_types and upgrade_priority)
generate_project_summary(pr) ==
    << [issue_types |-> IssueTypes(AllSuggestions(pr.file_results)),
        upgrade_priority |-> UpgradePriority(IssueTypes(AllSuggestions(pr.file_results)))] >>

\* arg is the state of the directory project_path
InitProject ==
    /\ arg \in {"listable", "missing", "unreadable"}
    /\ fs \in (IF arg = "missing" THEN {<<>>}
               ELSE IF arg = "unreadable"
                    THEN {<<File(ControllerPath, BeforeFilterLine, TRUE)>>}
                    ELSE ProjectDisks)
    /\ retriever \in {<<>>, <<KnowledgeBase>>, <<StaleKnowledgeBase>>}
    /\ pc = "project"
    /\ file_path = <<>>
    /\ content = <<>>
    /\ tier1_issues = <<>>
    /\ tier2_issues = <<>>
    /\ suggestions = <<>>
    /\ pending = <<>>
    /\ file_context = <<>>
    /\ file_context_cache = <<>>
    /\ search_log = <<>>
    /\ llm_calls = 0
    /\ ret = <<>>
    /\ inserted = <<>>
    /\ opened = 0
    /\ ruby_files = <<>>
    /\ file_no = 0
    /\ project_results = <<>>
    /\ skipped = <<>>
    /\ calls = <<>>
    /\ threads = <<>>

\* analyze_project up to the loop: the files are collected, the dict is set up
Walk ==
    /\ pc = "project"
    /\ ruby_files' = WalkFiles(arg, fs)
    /\ project_results' =
           << [total_files |-> Len(ruby_files'), analyzed_files |-> 0,
               files_with_issues |-> 0, total_suggestions |-> 0,
               file_results |-> <<>>, summary |-> <<>>] >>
    /\ file_no' = 0
    /\ pc' = "loop"
    /\ UNCHANGED <<file_path, content, tier1_issues, tier2_issues, suggestions, pending,
                   file_context, file_context_cache, retriever, search_log, llm_calls,
                   arg, ret, inserted, opened, fs, skipped, calls, threads>>

\* the loop takes the next file and calls analyze_file on it
AnalyzeNextFile ==
    /\ pc = "loop"
    /\ file_no < Len(ruby_files)
    /\ file_no' = file_no + 1
    /\ file_path' = ruby_files[file_no']
    /\ content' = <<>>
    /\ tier1_issues' = <<>>
    /\ tier2_issues' = <<>>
    /\ suggestions' = <<>>
    /\ pending' = <<>>
    /\ file_context' = <<>>
    /\ search_log' = <<>>
    /\ llm_calls' = 0
    /\ ret' = <<>>
    /\ opened' = 0
    /\ pc' = "start"
    /\ UNCHANGED <<file_context_cache, retriever, arg, inserted, fs, ruby_files,
                   project_results, skipped, calls, threads>>

\* analyze_file raises: a search of _get_file_context raises, and nothing is
\* stored in the cache
GetFileContextRaises ==
    /\ pc = "tier1"
    /\ pending = <<>>
    /\ tier2_should_run(file_path, content)
    /\ \E order \in Orders(ConfigMethods(content)) :
          /\ ContextRaises(file_context_cache, retriever, file_path, content, order)
          /\ search_log' = search_log
                 \o SearchedUntilRaise(retriever[1],
                                       MainQueries(file_context_cache, retriever,
                                                   file_path, content, order))
    /\ opened' = opened + (IF OpensForIndicators(file_path) THEN 1 ELSE 0)
    /\ pc' = "raised"
    /\ UNCHANGED <<file_path, content, tier1_issues, tier2_issues, suggestions, pending,
                   file_context, file_context_cache, retriever, llm_calls, arg, ret,
                   inserted, fs, ruby_files, file_no, project_results, skipped, calls, threads>>

\* a faulty variant: the exception of a file ends the loop
AbortScan ==
    /\ pc = "raised"
    /\ skipped' = Append(skipped, file_path)
    /\ file_no' = Len(ruby_files)
    /\ pc' = "loop"
    /\ UNCHANGED <<file_path, content, tier1_issues, tier2_issues, suggestions, pending,
                   file_context, file_context_cache, retriever, search_log, llm_calls,
                   arg, ret, inserted, opened, fs, ruby_files, project_results, calls, threads>>

\* except Exception: the file is reported and the loop goes on
SkipFile ==
    /\ pc = "raised"
    /\ skipped' = Append(skipped, file_path)
    /\ pc' = "loop"
    /\ UNCHANGED <<file_path, content, tier1_issues, tier2_issues, suggestions, pending,
                   file_context, file_context_cache, retriever, search_log, llm_calls,
                   arg, ret, inserted, opened, fs, ruby_files, file_no, project_results, calls, threads>>

\* analyze_file returned: its dict is appended and counted
CollectResult ==
    /\ pc = "done"
    /\ project_results' = <<Collected(project_results[1], ret[1])>>
    /\ pc' = "loop"
    /\ UNCHANGED <<file_path, content, tier1_issues, tier2_issues, suggestions, pending,
                   file_context, file_context_cache, retriever, search_log, llm_calls,
                   arg, ret, inserted, opened, fs, ruby_files, file_no, skipped, calls, threads>>

\* after the loop: the summary is generated and project_results returned
Summarise ==
    /\ pc = "loop"
    /\ file_no = Len(ruby_files)
    /\ project_results' =
           <<[project_results[1] EXCEPT
                 !.summary = generate_project_summary(project_results[1])]>>
    /\ pc' = "returned"
    /\ UNCHANGED <<file_path, content, tier1_issues, tier2_issues, suggestions, pending,
                   file_context, file_context_cache, retriever, search_log, llm_calls,
                   arg, ret, inserted, opened, fs, ruby_files, file_no, skipped, calls, threads>>

NextProject ==
    \/ Walk
    \/ AnalyzeNextFile
    \/ ReadFails
    \/ Tier1Detect
    \/ ProcessTier1Issue
    \/ Tier2Detect
    \/ GetFileContextRaises
    \/ Tier2NotNeeded
    \/ ProcessTier2Issue
    \/ Return
    \/ CollectResult
    \/ SkipFile
    \/ Summarise

SpecProject == InitProject /\ [][NextProject]_vars

(***************************************************************************)
(* LocalLLM.generate: the calling thread, its watchdog and the worker       *)
(* threads; calls[k] is the k-th call with the lists result and exception   *)
(* of its closure and the state of its worker thread                        *)
(***************************************************************************)
MaxCalls == 3

\* what self.model.generate of call k yields: the prompt followed by new text
EnhancedPrompt(k) == <<"Rails", " ", "x", ToString(k), NL>>
Completion(k) == <<"update", " ", "y", ToString(k)>>
Outputs(k) == EnhancedPrompt(k) \o Completion(k)

\* tokenizer.decode(outputs[0]) with the prompt taken out and the rest stripped
\* (the outputs of a causal model begin with the ids of the prompt)
Response(outputs, enhanced_prompt) ==
    IF Len(outputs) >= Len(enhanced_prompt)
       /\ SubSeq(outputs, 1, Len(enhanced_prompt)) = enhanced_prompt
    THEN Strip(SubSeq(outputs, Len(enhanced_prompt) + 1, Len(outputs)))
    ELSE outputs

\* a faulty variant: one result list shared by all calls (an attribute of the
\* object instead of a local of the call)
SharedResultList(cs, k) ==
    IF \E i \in 1..k : cs[i].result # <<>>
    THEN cs[Min({i \in 1..k : cs[i].result # <<>>})].result
    ELSE <<>>

\* the list result of call k: a local of that call, which its worker appends to
ResultList(cs, k) == cs[k].result

\* what generate returns once the join is over and the worker is not alive
Joined(cs, k) ==
    IF cs[k].exception # <<>> THEN ErrorFallback
    ELSE IF ResultList(cs, k) = <<>> THEN ErrorFallback
    ELSE Response(ResultList(cs, k)[1], EnhancedPrompt(k))

\* the variables generate does not touch
outside_generate ==
    <<file_path, content, tier1_issues, tier2_issues, suggestions, pending, file_context,
      file_context_cache, retriever, search_log, arg, inserted, opened, fs, ruby_files,
      file_no, project_results, skipped, threads>>

InitGenerate ==
    /\ Idle
    /\ retriever = <<>>
    /\ arg = <<>>
    /\ ret = <<>>
    /\ pc = "idle"

\* generate is called: the worker thread is started and joined
StartGenerate ==
    /\ pc = "idle"
    /\ llm_calls < MaxCalls
    /\ llm_calls' = llm_calls + 1
    /\ calls' = Append(calls, [thread |-> "alive", result |-> <<>>, exception |-> <<>>,
                               abandoned |-> FALSE, returned |-> <<>>])
    /\ pc' = "join"
    /\ UNCHANGED <<outside_generate, ret, threads>>

\* the worker of call k comes to its end: self.model.generate returned and the
\* outputs are appended to result
WorkerCompletes(k) ==
    /\ calls[k].thread = "alive"
    /\ calls' = [calls EXCEPT ![k].thread = "dead", ![k].result = <<Outputs(k)>>]
    /\ UNCHANGED <<outside_generate, ret, pc, llm_calls, threads>>

\* the worker of call k comes to its end: self.model.generate raised
WorkerRaises(k) ==
    /\ calls[k].thread = "alive"
    /\ calls' = [calls EXCEPT ![k].thread = "dead", ![k].exception = <<"e">>]
    /\ UNCHANGED <<outside_generate, ret, pc, llm_calls, threads>>

\* join(timeout=10) is over and the worker is still alive: the fallback is
\* returned and the worker left running
JoinTimesOut ==
    /\ pc = "join"
    /\ calls[llm_calls].thread = "alive"
    /\ ret' = <<TimeoutFallback>>
    /\ calls' = [calls EXCEPT ![llm_calls].abandoned = TRUE,
                              ![llm_calls].returned = <<TimeoutFallback>>]
    /\ pc' = "idle"
    /\ UNCHANGED <<outside_generate, llm_calls, threads>>

\* join is over and the worker is dead: its outcome is returned
JoinReturns ==
    /\ pc = "join"
    /\ calls[llm_calls].thread = "dead"
    /\ ret' = <<Joined(calls, llm_calls)>>
    /\ calls' = [calls EXCEPT ![llm_calls].returned = <<Joined(calls, llm_calls)>>]
    /\ pc' = "idle"
    /\ UNCHANGED <<outside_generate, llm_calls, threads>>

NextGenerate ==
    \/ StartGenerate
    \/ \E k \in 1..Len(calls) : WorkerCompletes(k)
    \/ \E k \in 1..Len(calls) : WorkerRaises(k)
    \/ JoinTimesOut
    \/ JoinReturns

SpecGenerate == InitGenerate /\ [][NextGenerate]_vars

(***************************************************************************)
(* _process_tier2_issue on its own: one Tier 2 issue and one generator      *)
(* response                                                                 *)
(***************************************************************************)
FixedLine == <<"before_action", " ", ":", "authenticate_user", "!">>
Reason == <<" ", "Use the new API">>

\* what the generator may answer about line
Tier2Answers(line) ==
    { TimeoutFallback,
      ErrorFallback,
      Explained(FixedLine),
      Explained(<<" ">> \o line \o <<" ">>),
      <<"The", " ", "code", " ", "above">>,
      UPDATED_CODE \o <<NL>> \o EXPLANATION \o Reason,
      UPDATED_CODE \o <<" ", "unchanged", " ", "code", NL>> \o EXPLANATION \o Reason,
      UPDATED_CODE \o <<" ", "same", " ", "code", NL>> \o EXPLANATION \o Reason,
      UPDATED_CODE \o <<" ", "~~~", "ruby", NL>> \o FixedLine \o <<NL, "~~~", NL>>
          \o EXPLANATION \o Reason,
      UPDATED_CODE \o <<" ">> \o FixedLine,
      UPDATED_CODE \o <<" ">> \o FixedLine \o <<NL>> \o EXPLANATION
          \o <<" ", "already", " ", "valid">>,
      UPDATED_CODE \o <<" ", "NO_CHANGE_NEEDED">> }

InitParse ==
    /\ Idle
    /\ retriever = <<>>
    /\ \E line \in FileLines :
          arg \in {[issue |-> DetectionResult(GemfilePath, "complex_deprecation", 1,
                                              Strip(line), <<>>, TIER_2_CONFIDENCE),
                    response |-> r] : r \in Tier2Answers(Strip(line))}
    /\ ret = <<>>
    /\ pc = "call"

ProcessTier2 ==
    /\ pc = "call"
    /\ ret' = process_tier2_issue(arg.issue, arg.response)
    /\ pc' = "done"
    /\ UNCHANGED <<analysis, arg>>

NextParse == ProcessTier2

SpecParse == InitParse /\ [][NextParse]_vars

(***************************************************************************)
(* _extract_ruby_code on texts that may hold no balanced unit               *)
(***************************************************************************)
MaxTextLines == 3

\* lines of a cleaned response: a header, an assignment, an indented
\* statement, a comment, a closing end
TextLines ==
    {<<"def", " ", "update">>, PlainLine, <<" ", " ", "y">>, CommentedRiskLine,
     <<"end">>}

InitFallback ==
    /\ Idle
    /\ retriever = <<>>
    /\ arg \in {[definition |-> <<>>, response |-> JoinLines(ls)] :
                   ls \in SeqsUpTo(TextLines, MaxTextLines) \ {<<>>}}
    /\ ret = <<>>
    /\ pc = "call"

SpecFallback == InitFallback /\ [][NextSanitize]_vars

(***************************************************************************)
(* the prompt of _process_tier2_issue                                       *)
(***************************************************************************)
SNIPPET_LEN == 300

\* the text of the chunk with this id in the chunks file the index was built
\* from (build_index.py embeds c["text"] and saves c["meta"] only)
ChunkText(id) == <<"reference text", " ", ToString(id)>>

\* result.get('text', '')
HitText(result) == IF "text" \in DOMAIN result THEN result.text ELSE <<>>

\* meta.get('source', 'Unknown')
HitSource(result) ==
    IF "source" \in DOMAIN result.meta THEN <<result.meta.source>> ELSE <<"Unknown">>

\* f"Source: {meta.get('source', 'Unknown')}\n{text}"
ContextPart(result) ==
    <<"Source", ":", " ">> \o HitSource(result) \o <<NL>>
        \o Truncate(HitText(result), SNIPPET_LEN)

\* "\n\n".join(context_parts)
RECURSIVE JoinParts(_)
JoinParts(results) ==
    IF results = <<>> THEN <<>>
    ELSE IF Len(results) = 1 THEN ContextPart(results[1])
    ELSE ContextPart(results[1]) \o <<NL, NL>> \o JoinParts(Tail(results))

\* context of _process_tier2_issue: the first three cached hits, or the hits of
\* the legacy search when nothing is cached and a retriever is loaded
Tier2Context(retr, ctx, issue) ==
    IF ctx # <<>> THEN JoinParts(SubSeq(ctx, 1, Min({3, Len(ctx)})))
    ELSE IF retr # <<>>
         THEN JoinParts(Search(retr[1], LegacyQuery(issue), RAG_SEARCH_LIMIT))
         ELSE <<>>

\* the prompt handed to self.llm.generate (the fixed task text is left out)
Tier2Prompt(retr, ctx, issue, target_version) ==
    <<"Analyze this specific line of code for Rails", " ", target_version, NL,
      "CODE TO ANALYZE", ":", NL>> \o issue.line_content
        \o <<NL, "FILE CONTEXT", ":", NL>> \o Tier2Context(retr, ctx, issue)
        \o <<NL, "Analyze", ":", " ">> \o issue.line_content

(***************************************************************************)
(* analyze_file on files with many Tier 2 candidates                        *)
(***************************************************************************)
MaxManyLines == 6

\* a line Tier 2 takes as a candidate, and one it does not
ManyLines == {BeforeFilterLine, PlainLine}

InitMany ==
    /\ file_path = GemfilePath
    /\ \E k \in (MaxManyLines - 1)..MaxManyLines :
          arg \in {JoinLines(ls) : ls \in [1..k -> ManyLines]}
    /\ fs = <<File(GemfilePath, arg, TRUE)>>
    /\ content = <<>>
    /\ retriever = <<KnowledgeBase>>
    /\ pc = "start"
    /\ tier1_issues = <<>>
    /\ tier2_issues = <<>>
    /\ suggestions = <<>>
    /\ pending = <<>>
    /\ file_context = <<>>
    /\ file_context_cache = <<>>
    /\ search_log = <<>>
    /\ llm_calls = 0
    /\ ret = <<>>
    /\ inserted = <<>>
    /\ opened = 0
    /\ ruby_files = <<>>
    /\ file_no = 0
    /\ project_results = <<>>
    /\ skipped = <<>>
    /\ calls = <<>>
    /\ threads = <<>>

NextMany ==
    \/ Tier1Detect
    \/ ProcessTier1Issue
    \/ Tier2Detect
    \/ ProcessTier2Issue
    \/ Return

SpecMany == InitMany /\ [][NextMany]_vars

(***************************************************************************)
(* Properties                                                              *)
(***************************************************************************)
IsNoOp(s) == Strip(s.refactored_code) = Strip(s.original_code)

\* C1: no suggestion analyze_file emits, on the Tier 1 simple path, the Tier 1
\* mass-assignment path or the Tier 2 path, has a refactored_code that equals
\* its original_code once both are stripped.
C1_NoNoOpSuggestion == \A i \in 1..Len(suggestions) : ~IsNoOp(suggestions[i])

MatchesRiskAndExclusion(line) ==
    MatchesAny(risk_patterns, line, TRUE) /\ MatchesAny(safe_patterns, line, TRUE)

ReportedLines(risks) == {risks[i][1] : i \in 1..Len(risks)}

\* C2: a line that matches a risk pattern and also a safe pattern is not among
\* the lines find_mass_assignment_risks reports.
C2_ExclusionsWin ==
    pc = "done" =>
        \A n \in 1..Len(SplitLines(arg)) :
            MatchesRiskAndExclusion(SplitLines(arg)[n]) => n \notin ReportedLines(ret)

\* a text with a reported risk and with a line the exclusions saved
C2_ExcludedLineSeen ==
    /\ pc = "done"
    /\ ret # <<>>
    /\ \E n \in 1..Len(SplitLines(arg)) : MatchesRiskAndExclusion(SplitLines(arg)[n])

FirstNonBlank(lines) == lines[Min({n \in 1..Len(lines) : Strip(lines[n]) # <<>>})]

\* C3: whenever extract_method_context returns a context, start_line <=
\* line_number <= end_line, and the first non-blank line of content is a method
\* header.
C3_ContextContainsLine ==
    (pc = "done" /\ ret # <<>>) =>
        /\ ret[1].start_line <= arg.line_number
        /\ arg.line_number <= ret[1].end_line
        /\ IsMethodHeader(FirstNonBlank(SplitLines(ret[1].content)))

MassLines(issues) ==
    {issues[i].line_number : i \in {j \in 1..Len(issues) : IsMassIssue(issues[j])}}

SimpleLines(issues) ==
    {issues[i].line_number : i \in {j \in 1..Len(issues) : ~IsMassIssue(issues[j])}}

\* C4: in the output of detect_all_tier1_issues no line number carries both a
\* mass-assignment finding and a simple-substitution finding.
C4_NoDoubleReport == MassLines(tier1_issues) \cap SimpleLines(tier1_issues) = {}

\* a mass-assignment finding on a line a simple rule matches too, beside a
\* simple finding on another line
C4_MassLineAlsoDeprecated ==
    /\ \E i \in 1..Len(tier1_issues) :
          IsMassIssue(tier1_issues[i]) /\ tier1_issues[i].line_content = FindUpdateLine
    /\ SimpleLines(tier1_issues) # {}

\* C5: a request for a path whose entry is in the cache is a hit: it searches
\* nothing, returns the stored context and leaves the cache as it is; and what a
\* miss returns is what it stores.
C5_SecondRequestIsHit ==
    [][ /\ file_path' \in CacheKeys(file_context_cache) =>
              /\ search_log' = <<>>
              /\ file_context' = CacheValue(file_context_cache, file_path')
              /\ file_context_cache' = file_context_cache
        /\ file_path' \notin CacheKeys(file_context_cache) =>
              /\ file_path' \in CacheKeys(file_context_cache')
              /\ CacheValue(file_context_cache', file_path') = file_context' ]_vars

\* a hit on a stored empty context while a retriever is loaded
C5_HitOnEmptyContext ==
    /\ pc = "hit"
    /\ retriever # <<>>
    /\ file_context = <<>>
    /\ CacheValue(file_context_cache, file_path) = <<>>

\* C6: a miss at capacity evicts exactly the entry inserted earliest among those
\* present, and a hit changes neither the cache nor the order of insertion.
C6_FifoEviction ==
    [][ /\ (/\ file_path' \notin CacheKeys(file_context_cache)
            /\ Len(file_context_cache) >= FILE_CONTEXT_CACHE_SIZE) =>
              CacheKeys(file_context_cache') =
                  (CacheKeys(file_context_cache) \ {Head(inserted)}) \cup {file_path'}
        /\ file_path' \in CacheKeys(file_context_cache) =>
              /\ file_context_cache' = file_context_cache
              /\ inserted' = inserted ]_vars

\* a miss on a full cache has evicted the oldest entry, and an entry hit before
\* is still there
C6_OldestEvicted ==
    /\ pc = "miss"
    /\ Len(file_context_cache) = FILE_CONTEXT_CACHE_SIZE
    /\ EarlierPath(1) \notin CacheKeys(file_context_cache)
    /\ EarlierPath(2) \notin CacheKeys(file_context_cache)

\* C7: the cache never holds more than FILE_CONTEXT_CACHE_SIZE entries, and the
\* value stored under a key does not change while the key stays in the cache.
C7_BoundedAndImmutable ==
    /\ [](Len(file_context_cache) <= FILE_CONTEXT_CACHE_SIZE)
    /\ [][\A k \in CacheKeys(file_context_cache) \cap CacheKeys(file_context_cache') :
             CacheValue(file_context_cache', k) = CacheValue(file_context_cache, k)]_vars

\* a hit while the cache is full
C7_HitWhenFull ==
    /\ pc = "hit"
    /\ Len(file_context_cache) = FILE_CONTEXT_CACHE_SIZE
    /\ Cardinality(CacheKeys(file_context_cache)) = FILE_CONTEXT_CACHE_SIZE

\* C8: for a balanced definition followed by prose, _extract_ruby_code returns
\* exactly the definition, from its def line through its own closing end.
C8_ExactDefinition == pc = "done" => ret = arg.definition

Tier1Finished == pc \in {"tier2", "done"} \/ (pc = "tier1" /\ pending = <<>>)

Tier1SuggestionsAt(n) ==
    {i \in 1..Len(suggestions) :
        suggestions[i].tier = "tier1" /\ suggestions[i].line_number = n}

\* C10: for a line before_filter :authenticate_user! Tier 1 produces exactly one
\* suggestion, with issue_type "before_filter_deprecation", refactored_code
\* before_action :authenticate_user! and confidence 0.95 (95 hundredths).
C10_BeforeFilterSuggestion ==
    Tier1Finished =>
        \A n \in 1..Len(SplitLines(content)) :
            SplitLines(content)[n] = BeforeFilterLine =>
                /\ Cardinality(Tier1SuggestionsAt(n)) = 1
                /\ \A i \in Tier1SuggestionsAt(n) :
                      /\ suggestions[i].issue_type = "before_filter_deprecation"
                      /\ suggestions[i].refactored_code =
                             <<"before_action", " ", ":", "authenticate_user", "!">>
                      /\ suggestions[i].confidence = 95

\* the analysis of a two-line file whose second line is the before_filter line
\* has returned
C10_BeforeFilterAnalysed ==
    /\ pc = "done"
    /\ Len(SplitLines(content)) = 2
    /\ SplitLines(content)[2] = BeforeFilterLine
    /\ Tier1SuggestionsAt(2) # {}

\* the update_attributes issues and suggestions of the analysis
UpdateIssues == {i \in 1..Len(tier1_issues) :
                    tier1_issues[i].pattern_type = "mass_assignment_with_deprecation"}
UpdateSuggestions == {i \in 1..Len(suggestions) :
                         suggestions[i].issue_type = "mass_assignment_with_deprecation"}

\* mc is a method context that spans exactly the lines first..last
SpansExactly(mc, first, last) ==
    /\ mc # <<>>
    /\ mc[1].start_line = first
    /\ mc[1].end_line = last

\* C11: for an update_attributes(params[:user]) line of the method update, nested
\* in do/if blocks or not, the method context Tier 1 records starts at the def
\* update line and ends at the end that closes the method, and the suggestion
\* emitted for the line carries a method_context spanning exactly that range.
C11_UpdateMethodContext ==
    /\ \A i \in UpdateIssues :
          SpansExactly(tier1_issues[i].method_context, arg.def_line, arg.end_line)
    /\ \A i \in UpdateSuggestions :
          SpansExactly(suggestions[i].method_context, arg.def_line, arg.end_line)

\* C12: when the file cannot be read, analyze_file returns the error dict without
\* raising, has opened the file once, has run no Tier 1 detection, no retrieval
\* and no generation, and leaves the file-context cache as it was.
C12_UnreadableFile ==
    ~CanRead(fs, file_path) =>
        /\ pc \in {"start", "done"}
        /\ pc = "done" => (ret = ReadError /\ opened = 1)
        /\ opened <= 1
        /\ tier1_issues = <<>> /\ tier2_issues = <<>> /\ suggestions = <<>>
        /\ search_log = <<>>
        /\ llm_calls = 0
        /\ file_context_cache = <<>> /\ inserted = <<>>

\* analyze_file has returned for a file that exists and may not be read
C12_UnreadableReturned ==
    /\ pc = "done"
    /\ fs # <<>>
    /\ ~CanRead(fs, file_path)
    /\ ret = ReadError

\* C13: when the project path is missing or cannot be read, analyze_project
\* returns a structured error (a dict with an error entry), not an ordinary
\* result.
C13_MissingProjectIsError ==
    (pc = "returned" /\ arg # "listable") => "error" \in DOMAIN project_results[1]

\* the results of the files whose analysis returned a dict with a file_path
ResultPaths(file_results) ==
    {file_results[i].file_path :
        i \in {j \in 1..Len(file_results) : "file_path" \in DOMAIN file_results[j]}}

\* the scan went through every file: each one was skipped or has its result
ScanComplete ==
    /\ file_no = Len(ruby_files)
    /\ Len(project_results[1].file_results) + Len(skipped) = Len(ruby_files)
    /\ ResultPaths(project_results[1].file_results) \cap Range(skipped) = {}
    /\ \A i \in 1..Len(ruby_files) :
          (ruby_files[i] \notin Range(skipped) /\ CanRead(fs, ruby_files[i]))
              => ruby_files[i] \in ResultPaths(project_results[1].file_results)

\* the steps of analyze_project itself
ProjectStep == Walk \/ AnalyzeNextFile \/ CollectResult \/ SkipFile \/ Summarise

\* C14: whichever files make analyze_file raise, analyze_project skips them,
\* analyses every other file of the walk, reaches the summary and returns: an
\* exception puts the loop back at the same position with the results kept,
\* the loop takes every file of the walk in turn, analyze_project has a step
\* to take whenever analyze_file has returned or raised, and the returned dict
\* holds the summary and the result of every file that did not raise.
C14_ScanSurvivesFailures ==
    /\ [](pc = "returned" => (ScanComplete /\ project_results[1].summary # <<>>))
    /\ [](pc \in {"project", "loop", "done", "raised"} => ENABLED <<ProjectStep>>_vars)
    /\ [](file_no <= Len(ruby_files))
    /\ [][pc = "raised" =>
             (pc' = "loop" /\ file_no' = file_no /\ project_results' = project_results)]_vars
    /\ [][(pc = "loop" /\ file_no < Len(ruby_files)) =>
             (pc' = "start" /\ file_no' = file_no + 1
              /\ file_path' = ruby_files[file_no + 1])]_vars

\* the first of two files raised, the second was analysed, and the run returned
C14_SecondFileAnalysed ==
    /\ pc = "returned"
    /\ Len(ruby_files) = 2
    /\ skipped = <<ruby_files[1]>>
    /\ ResultPaths(project_results[1].file_results) = {ruby_files[2]}

\* what the abandoned workers produce is returned by no call
AbandonedResultIgnored ==
    \A k \in 1..Len(calls) :
        calls[k].abandoned =>
            /\ calls[k].returned = <<TimeoutFallback>>
            /\ \A j \in k..Len(calls) :
                  calls[j].returned \notin {<<Outputs(k)>>, <<Completion(k)>>}

\* C15: a call whose worker is still alive when the join ends returns the
\* timeout fallback and leaves that worker alive, and what an abandoned worker
\* produces is never what this call or a later call returns.
C15_AbandonedResultIgnored ==
    /\ []AbandonedResultIgnored
    /\ [][(pc = "join" /\ calls[llm_calls].thread = "alive" /\ pc' = "idle")
            => /\ ret' = <<TimeoutFallback>>
               /\ calls'[llm_calls].thread = "alive"
               /\ calls'[llm_calls].result = <<>>]_vars

\* an abandoned worker has produced its outputs and a later call has returned
C15_LateResultSeen ==
    \E k \in 1..Len(calls) :
        /\ calls[k].abandoned
        /\ calls[k].result = <<Outputs(k)>>
        /\ \E j \in (k + 1)..Len(calls) : calls[j].returned = <<Completion(j)>>

\* C20: at every moment at most one worker is running self.model.generate.
C20_OneGenerationInFlight ==
    Cardinality({k \in 1..Len(calls) : calls[k].thread = "alive"}) <= 1

\* the texts generate substitutes when the call timed out or failed
Fallbacks == {TimeoutFallback, ErrorFallback}

\* what a suggestion holds as refactored_code when it is made of a fallback text
FallbackCodes == {extract_ruby_code(clean_llm_response(fb)) : fb \in Fallbacks}

\* a suggestion marked for manual review: a confidence below that of both tiers
\* or an explanation that asks for the review
MarkedForReview(s) ==
    \/ s.confidence < TIER_2_CONFIDENCE
    \/ \E i \in 1..Len(s.explanation) : s.explanation[i] = "manual review recommended"

\* C16: a suggestion derived from the text substituted for a timed-out or failed
\* generator call is dropped or marked for manual review with low confidence, on
\* both tiers: no suggestion of ordinary confidence has the fallback text as its
\* refactored_code.
C16_FallbackDroppedOrMarked ==
    \A i \in 1..Len(suggestions) :
        suggestions[i].refactored_code \in FallbackCodes => MarkedForReview(suggestions[i])

\* generator output _process_tier2_issue cannot parse: neither a no-change phrase
\* nor the UPDATED_CODE marker is in the cleaned response
Unparseable(raw) ==
    /\ ~ContainsAnyLower(clean_llm_response(raw), no_change_phrases)
    /\ ~Contains(clean_llm_response(raw), UPDATED_CODE)

\* the last suggestion is the fallback for raw: the raw text as explanation and
\* a low confidence
IsParseFallback(suggs, raw) ==
    /\ suggs # <<>>
    /\ suggs[Len(suggs)].explanation = raw
    /\ suggs[Len(suggs)].confidence < TIER_2_CONFIDENCE

\* C17: a turn of the Tier 2 loop whose generator output cannot be parsed adds a
\* fallback suggestion that holds the raw text as explanation with a low
\* confidence; the output is not discarded.
C17_UnparseableKept ==
    [][(pc = "tier2" /\ pending # <<>> /\ pending' = Tail(pending))
        => \A raw \in Generations(Head(pending).line_content) :
              (/\ Unparseable(raw)
               /\ suggestions' = suggestions \o process_tier2_issue(Head(pending), raw))
              => (/\ Len(suggestions') = Len(suggestions) + 1
                  /\ IsParseFallback(suggestions', raw))]_vars

\* texts self.llm.generate may have returned for a Tier 1 issue (none is read
\* off the mass-assignment path)
Tier1Responses(issue) ==
    IF IsMassIssue(issue) THEN Generations(issue.line_content) ELSE {<<>>}

\* the Tier 1 issues and suggestions of the returned result are those of the
\* file and of the generator alone, whatever the retriever is
Tier1OfFileAlone ==
    (pc = "done" /\ CanRead(fs, file_path)) =>
        /\ tier1_issues = detect_all_tier1_issues(file_path, TextOf(fs, file_path))
        /\ Len(suggestions) >= Len(tier1_issues)
        /\ \A i \in 1..Len(tier1_issues) :
              \E response \in Tier1Responses(tier1_issues[i]) :
                  suggestions[i] = process_tier1_issue(tier1_issues[i], response)

MatchesHeuristics(fp) ==
    \/ ContainsAnyLower(fp, important_files)
    \/ MatchesConfigPattern(fp)
    \/ ContainsLower(fp, <<"config">>)

\* the content holds one of the framework-identifying tokens
HasFrameworkToken(text) ==
    \/ ContainsAnyLower(text, rails_indicators)
    \/ \E i \in 1..Len(text) : text[i] \in RailsLikeToks

\* nothing of Tier 2 happened: no retrieval call, no cache insertion, no Tier 2
\* issue, and no generator call besides those of the mass-assignment issues
Tier2Skipped ==
    /\ search_log = <<>>
    /\ inserted = <<>>
    /\ file_context_cache = <<>>
    /\ tier2_issues = <<>>
    /\ llm_calls = Cardinality({i \in 1..Len(tier1_issues) : IsMassIssue(tier1_issues[i])})
    /\ Len(suggestions) = Len(tier1_issues)

\* the read file has been taken past the Tier 2 gate
PastGate == pc \in {"tier2", "done"} /\ CanRead(fs, file_path)

\* C19 as stated: a file whose path matches no important-file heuristic and whose
\* content holds no framework token skips Tier 2 entirely.
C19_OnlyQualifyingFiles ==
    (PastGate /\ ~MatchesHeuristics(file_path) /\ ~HasFrameworkToken(content))
        => Tier2Skipped

\* C19 amended: a file goes through Tier 2 exactly if its path matches one of the
\* name heuristics, or ends in .rb, or its content holds "rails" in any case;
\* every other file skips Tier 2 entirely: no retrieval call, no Tier 2 generator
\* call, no cache insertion.
C19_GateDecides ==
    PastGate =>
        IF \/ MatchesHeuristics(file_path)
           \/ EndsWith(file_path, <<".", "rb">>)
           \/ \E i \in 1..Len(content) : content[i] \in RailsLikeToks
        THEN file_path \in CacheKeys(file_context_cache)
        ELSE Tier2Skipped

\* a file with a Tier 1 issue was returned without Tier 2
C19_ReturnedWithoutTier2 ==
    /\ pc = "done"
    /\ CanRead(fs, file_path)
    /\ tier1_issues # <<>>
    /\ retriever # <<>>
    /\ Tier2Skipped

\* the line numbers of a list of issues
LineNumbers(issues) == {issues[i].line_number : i \in 1..Len(issues)}

\* C21: Tier 2 takes only lines Tier 1 left unflagged: no line number is both in
\* tier1_issues and in tier2_issues, and no line has a suggestion of each tier.
C21_TiersDisjoint ==
    /\ LineNumbers(tier1_issues) \cap LineNumbers(tier2_issues) = {}
    /\ \A i, j \in 1..Len(suggestions) :
          (suggestions[i].tier = "tier1" /\ suggestions[j].tier = "tier2")
              => suggestions[i].line_number # suggestions[j].line_number

\* line n has a finding of a simple-substitution rule
HasSimpleFinding(issues, n) ==
    \E i \in 1..Len(issues) :
        /\ issues[i].line_number = n
        /\ RuleIndex(issues[i].pattern_type, simple_patterns) # 0

\* C22: in a file of any type, every line that matches a simple-substitution
\* pattern and was not flagged by the mass-assignment rule has a
\* simple-substitution finding.
C22_SimpleRulesEverywhere ==
    (pc # "start" /\ CanRead(fs, file_path)) =>
        \A n \in 1..Len(SplitLines(content)) :
            (/\ FirstMatchingRule(SplitLines(content)[n], simple_patterns) # 0
             /\ n \notin MassLines(tier1_issues))
                => HasSimpleFinding(tier1_issues, n)

\* the updated code as the response states it: the text between the first
\* UPDATED_CODE: and the EXPLANATION: after it, without fences and trimmed;
\* <<>> when it is absent or empty
StatedCode(response) ==
    IF ~Contains(response, UPDATED_CODE) THEN <<>>
    ELSE Strip(StripFences(Strip(BeforeFirst(AfterFirst(response, UPDATED_CODE),
                                             EXPLANATION))))

HasSentinel(response) == ContainsLower(response, <<"no_change_needed">>)

StartsWithMarker(code) == \E pre \in no_change_prefixes : StartsWithLower(code, pre)

\* one of the four reasons to discard holds for the cleaned response
MustDiscard(response, line_content) ==
    \/ HasSentinel(response)
    \/ StatedCode(response) = <<>>
    \/ StartsWithMarker(StatedCode(response))
    \/ Strip(StatedCode(response)) = Strip(line_content)

\* C23: _process_tier2_issue returns no suggestion when the cleaned response
\* holds the no-change sentinel, or the updated code is absent or empty, or
\* starts with a no-op marker, or equals the trimmed input line; a suggestion
\* is returned only when none of these holds.
C23_DiscardRules ==
    pc = "done" =>
        (MustDiscard(clean_llm_response(arg.response), arg.issue.line_content)
            => ret = <<>>)

\* a response whose updated code starts with a no-op marker was discarded, and
\* nothing else was a reason to
C23_MarkerDiscarded ==
    /\ pc = "done"
    /\ ret = <<>>
    /\ ~HasSentinel(clean_llm_response(arg.response))
    /\ StartsWithMarker(StatedCode(clean_llm_response(arg.response)))

\* C24: one analyze_file call issues at most two searches and no query twice,
\* and the hits of those searches are what the cache holds for the file, also
\* when there are none.
C24_TwoSearchesOnce ==
    /\ Len(search_log) <= 2
    /\ \A i, j \in 1..Len(search_log) : i # j => search_log[i] # search_log[j]
    /\ (pc \in {"tier2", "done"} /\ file_path \in CacheKeys(file_context_cache))
          => CacheValue(file_context_cache, file_path) = file_context

\* the lines that open a definition
HeaderLines(lines) ==
    {n \in 1..Len(lines) : StartsWith(Strip(lines[n]), <<"def", " ">>)}

ClosingLines(lines) == {n \in 1..Len(lines) : Strip(lines[n]) = <<"end">>}

\* no definition at all, or one whose openers are at no line balanced by as
\* many closing end lines
NoBalancedUnit(lines) ==
    \/ HeaderLines(lines) = {}
    \/ \A k \in Min(HeaderLines(lines))..Len(lines) :
          Cardinality(HeaderLines(lines) \cap Min(HeaderLines(lines))..k)
              # Cardinality(ClosingLines(lines) \cap Min(HeaderLines(lines))..k)

\* the first non-empty, non-comment line, cut to the safety length (<<>> when
\* there is none)
FirstCodeLine(lines) ==
    IF \E n \in 1..Len(lines) : IsCodeLine(lines[n])
    THEN Truncate(Strip(lines[Min({n \in 1..Len(lines) : IsCodeLine(lines[n])})]),
                  SAFETY_LEN)
    ELSE <<>>

\* C25: for a text without a balanced unit _extract_ruby_code returns only the
\* first non-empty, non-comment line, cut to the safety length.
C25_FallbackIsFirstLine ==
    (pc = "done" /\ NoBalancedUnit(SplitLines(arg.response)))
        => ret = FirstCodeLine(SplitLines(arg.response))

\* the header lines of text at or before line n that the look-back window
\* of n reaches
HeadersBefore(text, n) ==
    {m \in 1..n : m > n - LookBack /\ IsMethodHeader(SplitLines(text)[m])}

LineInRange(text, n) == n >= 1 /\ n <= Len(SplitLines(text))

\* C26: extract_method_context returns None exactly when the line number is out
\* of range or no header is on the line or on an earlier line within the
\* window; otherwise the nearest header, also one on line 1, is start_line.
C26_NearestHeader ==
    pc = "done" =>
        IF LineInRange(arg.file_content, arg.line_number)
           /\ HeadersBefore(arg.file_content, arg.line_number) # {}
        THEN /\ ret # <<>>
             /\ ret[1].start_line = Max(HeadersBefore(arg.file_content, arg.line_number))
        ELSE ret = <<>>

\* the prompt of the Tier 2 issue that is next in turn
NextPrompt == Tier2Prompt(retriever, file_context, Head(pending), "7.0")

\* C27: the Tier 2 prompt holds, for each of the first three cached hits, the
\* source of the hit and its retrieved text cut to the snippet length.
C27_PromptEmbedsSnippets ==
    (pc = "tier2" /\ pending # <<>>) =>
        \A i \in 1..Min({3, Len(file_context)}) :
            /\ Contains(NextPrompt, <<"Source", ":", " ">> \o HitSource(file_context[i]))
            /\ Contains(NextPrompt, Truncate(ChunkText(file_context[i].id), SNIPPET_LEN))

\* the lines of the file Tier 2 takes as candidates
CandidateLines == {n \in 1..Len(SplitLines(arg)) : SplitLines(arg)[n] # PlainLine}

Tier2Suggestions == SelectSeq(suggestions, LAMBDA sg : sg.tier = "tier2")

\* the issues are in the order of their lines
InLineOrder(issues) ==
    \A i, j \in 1..Len(issues) : i < j => issues[i].line_number < issues[j].line_number

\* C28: with more than 5 Tier 2 candidates analyze_file makes no Tier 2
\* generator call and no Tier 2 suggestion, yet reports and counts every
\* candidate; with 5 or fewer each candidate is processed, in line order.
C28_ManyCandidatesSkipped ==
    pc \in {"tier2", "done"} =>
        /\ LineNumbers(tier2_issues) = CandidateLines
        /\ Len(tier2_issues) = Cardinality(CandidateLines)
        /\ InLineOrder(tier2_issues)
        /\ IF Len(tier2_issues) > 5
           THEN llm_calls = 0 /\ pending = <<>> /\ Tier2Suggestions = <<>>
           ELSE /\ pending = SubSeq(tier2_issues, llm_calls + 1, Len(tier2_issues))
                /\ InLineOrder(Tier2Suggestions)
                /\ LineNumbers(Tier2Suggestions)
                      \subseteq LineNumbers(SubSeq(tier2_issues, 1, llm_calls))
        /\ pc = "done" =>
              /\ ret[1].tier2_issues = tier2_issues
              /\ ret[1].total_issues = Len(tier1_issues) + Cardinality(CandidateLines)
              /\ Len(tier2_issues) <= 5 => llm_calls = Len(tier2_issues)

\* a file with more than 5 candidates was returned
C28_SixCandidatesReturned ==
    /\ pc = "done"
    /\ Cardinality(CandidateLines) > 5
    /\ ret[1].total_issues > 5

\* the sum of len(suggestions) over the file results
RECURSIVE SuggestionCount(_)
SuggestionCount(file_results) ==
    IF file_results = <<>> THEN 0
    ELSE (IF "suggestions" \in DOMAIN Head(file_results)
          THEN Len(Head(file_results).suggestions) ELSE 0)
         + SuggestionCount(Tail(file_results))

\* the sum of the counts of a dict of counts
RECURSIVE CountSum(_)
CountSum(counts) ==
    IF DOMAIN counts = {} THEN 0
    ELSE LET t == CHOOSE u \in DOMAIN counts : TRUE
         IN  counts[t] + CountSum([u \in DOMAIN counts \ {t} |-> counts[u]])

\* C29: whatever files are unreadable or raise, the result of analyze_project
\* has analyzed_files = len(file_results) <= total_files, files_with_issues <=
\* analyzed_files, total_suggestions the sum of the suggestions of the file
\* results, and issue-type counts that sum to total_suggestions.
C29_ProjectCounts ==
    pc = "returned" =>
        /\ project_results[1].analyzed_files = Len(project_results[1].file_results)
        /\ project_results[1].analyzed_files <= project_results[1].total_files
        /\ project_results[1].total_files = Len(ruby_files)
        /\ project_results[1].files_with_issues <= project_results[1].analyzed_files
        /\ project_results[1].total_suggestions
              = SuggestionCount(project_results[1].file_results)
        /\ CountSum(project_results[1].summary[1].issue_types)
              = project_results[1].total_suggestions

\* a project with an unreadable file and a file with suggestions was returned
C29_ErrorAndSuggestions ==
    /\ pc = "returned"
    /\ \E i \in 1..Len(project_results[1].file_results) :
          "error" \in DOMAIN project_results[1].file_results[i]
    /\ project_results[1].total_suggestions > 0

(***************************************************************************)
(* api_bridge.py: every streaming request starts a thread that calls        *)
(* analyze_project on the one module-level analyzer, so several threads     *)
(* can be inside _get_file_context at once; each statement that touches the *)
(* dict is one step                                                         *)
(***************************************************************************)
NumThreads == 2
MaxRequests == 2

ThreadIds == 1..NumThreads

\* the files the requests analyse: the oldest cached one and two new ones
ThreadPaths == {EarlierPath(1), ControllerPath, ModelPath}

\* what the files hold
ThreadContents == {BeforeFilterLine}

\* a thread outside _get_file_context that has made n calls
Outside(n, outcome, over) ==
    [pc |-> "idle", key |-> <<>>, text |-> <<>>, ctx |-> <<>>, oldest |-> <<>>,
     requests |-> n, outcome |-> outcome, overlapped |-> over]

InitThreads ==
    /\ file_path = <<>>
    /\ content = <<>>
    /\ tier1_issues = <<>>
    /\ tier2_issues = <<>>
    /\ suggestions = <<>>
    /\ pending = <<>>
    /\ file_context = <<>>
    /\ retriever \in {<<>>, <<KnowledgeBase>>}
    /\ \E h \in 0..Headroom :
          file_context_cache = CacheAfter(retriever, FILE_CONTEXT_CACHE_SIZE - h)
    /\ inserted = [n \in 1..Len(file_context_cache) |-> file_context_cache[n].key]
    /\ search_log = <<>>
    /\ llm_calls = 0
    /\ arg = <<>>
    /\ ret = <<>>
    /\ pc = "idle"
    /\ opened = 0
    /\ fs = <<>>
    /\ ruby_files = <<>>
    /\ file_no = 0
    /\ project_results = <<>>
    /\ skipped = <<>>
    /\ calls = <<>>
    /\ threads = [t \in ThreadIds |-> Outside(0, "none", FALSE)]

Inside(t) == threads[t].pc # "idle"

\* thread t moves on; nothing else of the analyzer changes
Step(t, rec) ==
    /\ threads' = [threads EXCEPT ![t] = rec]
    /\ UNCHANGED <<file_path, content, pc, tier1_issues, tier2_issues, suggestions,
                   pending, file_context, retriever, llm_calls, arg, ret, opened, fs,
                   ruby_files, file_no, project_results, skipped, calls>>

\* the call: cache_key = file_path
Enter(t) ==
    /\ ~Inside(t)
    /\ threads[t].requests < MaxRequests
    /\ \E fp \in ThreadPaths, text \in ThreadContents :
          threads' =
             [u \in ThreadIds |->
                 IF u = t
                 THEN [pc |-> "lookup", key |-> fp, text |-> text, ctx |-> <<>>,
                       oldest |-> <<>>, requests |-> threads[t].requests + 1,
                       outcome |-> "none",
                       overlapped |-> threads[t].overlapped
                                      \/ \E v \in ThreadIds \ {t} : Inside(v)]
                 ELSE [threads[u] EXCEPT !.overlapped = @ \/ Inside(u)]]
    /\ UNCHANGED <<file_path, content, pc, tier1_issues, tier2_issues, suggestions,
                   pending, file_context, file_context_cache, retriever, search_log,
                   llm_calls, arg, ret, inserted, opened, fs, ruby_files, file_no,
                   project_results, skipped, calls>>

\* if cache_key in self.file_context_cache
Lookup(t) ==
    /\ threads[t].pc = "lookup"
    /\ Step(t, [threads[t] EXCEPT
                   !.pc = IF threads[t].key \in CacheKeys(file_context_cache)
                          THEN "hit" ELSE "miss"])
    /\ UNCHANGED <<file_context_cache, inserted, search_log>>

\* return self.file_context_cache[cache_key]: a KeyError when the entry has
\* been evicted since the test
ReturnCached(t) ==
    /\ threads[t].pc = "hit"
    /\ Step(t, IF threads[t].key \in CacheKeys(file_context_cache)
               THEN [threads[t] EXCEPT
                        !.pc = "idle", !.outcome = "returned",
                        !.ctx = CacheValue(file_context_cache, threads[t].key)]
               ELSE [threads[t] EXCEPT !.pc = "idle", !.outcome = "raised"])
    /\ UNCHANGED <<file_context_cache, inserted, search_log>>

\* the queries and the searches of the miss, on locals of the thread
Generate(t) ==
    /\ threads[t].pc = "miss"
    /\ \E order \in Orders(ConfigMethods(threads[t].text)) :
          LET main == IF retriever = <<>> THEN <<>>
                      ELSE FirstTwo(generate_search_queries(threads[t].key,
                                                            threads[t].text, order))
          IN  IF retriever # <<>> /\ AnySearchRaises(retriever[1], main)
              THEN /\ Step(t, [threads[t] EXCEPT !.pc = "idle", !.outcome = "raised"])
                   /\ search_log' = search_log \o SearchedUntilRaise(retriever[1], main)
              ELSE /\ Step(t, [threads[t] EXCEPT
                                  !.pc = "size",
                                  !.ctx = IF retriever = <<>> THEN <<>>
                                          ELSE SearchAll(retriever[1], main)])
                   /\ search_log' = search_log \o main
    /\ UNCHANGED <<file_context_cache, inserted>>

\* a faulty variant: the size is never looked at
CacheFullNever(cache) == FALSE

\* len(self.file_context_cache) >= FILE_CONTEXT_CACHE_SIZE
CacheFull(cache) == Len(cache) >= FILE_CONTEXT_CACHE_SIZE

CheckSize(t) ==
    /\ threads[t].pc = "size"
    /\ Step(t, [threads[t] EXCEPT
                   !.pc = IF CacheFull(file_context_cache) THEN "oldest" ELSE "store"])
    /\ UNCHANGED <<file_context_cache, inserted, search_log>>

\* oldest_key = next(iter(self.file_context_cache)): StopIteration on an empty dict
PickOldest(t) ==
    /\ threads[t].pc = "oldest"
    /\ Step(t, IF file_context_cache = <<>>
               THEN [threads[t] EXCEPT !.pc = "idle", !.outcome = "raised"]
               ELSE [threads[t] EXCEPT !.pc = "delete",
                                       !.oldest = file_context_cache[1].key])
    /\ UNCHANGED <<file_context_cache, inserted, search_log>>

\* the dict without key
Deleted(cache, key) == SelectSeq(cache, LAMBDA e : e.key # key)

\* del self.file_context_cache[oldest_key]: a KeyError when another thread has
\* deleted it already
DeleteOldest(t) ==
    /\ threads[t].pc = "delete"
    /\ IF threads[t].oldest \in CacheKeys(file_context_cache)
       THEN /\ file_context_cache' = Deleted(file_context_cache, threads[t].oldest)
            /\ inserted' = InsertedAfter(inserted, file_context_cache,
                                         file_context_cache')
            /\ Step(t, [threads[t] EXCEPT !.pc = "store"])
       ELSE /\ UNCHANGED <<file_context_cache, inserted>>
            /\ Step(t, [threads[t] EXCEPT !.pc = "idle", !.outcome = "raised"])
    /\ UNCHANGED search_log

\* d[key] = value: a key the dict holds keeps its place
Assigned(cache, key, value) ==
    IF key \in CacheKeys(cache)
    THEN [i \in 1..Len(cache) |->
             IF cache[i].key = key THEN [key |-> key, value |-> value] ELSE cache[i]]
    ELSE Append(cache, [key |-> key, value |-> value])

\* self.file_context_cache[cache_key] = file_context; return file_context
Store(t) ==
    /\ threads[t].pc = "store"
    /\ file_context_cache' =
          Assigned(file_context_cache, threads[t].key, threads[t].ctx)
    /\ inserted' = InsertedAfter(inserted, file_context_cache, file_context_cache')
    /\ Step(t, [threads[t] EXCEPT !.pc = "idle", !.outcome = "returned"])
    /\ UNCHANGED search_log

NextThreads ==
    \E t \in ThreadIds :
       \/ Enter(t)
       \/ Lookup(t)
       \/ ReturnCached(t)
       \/ Generate(t)
       \/ CheckSize(t)
       \/ PickOldest(t)
       \/ DeleteOldest(t)
       \/ Store(t)

SpecThreads == InitThreads /\ [][NextThreads]_vars

Overlapped == \E t \in ThreadIds : threads[t].overlapped

\* C30: the file-context cache is not safe for concurrent use.  As long as
\* no two threads have been inside _get_file_context at once, the cache of a
\* shared analyzer holds at most FILE_CONTEXT_CACHE_SIZE entries; it holds
\* more only after two threads have interleaved inside it (the state
\* C30_CacheOverfull shows that such an interleaving exists).
C30_OverfullOnlyByInterleaving ==
    Len(file_context_cache) > FILE_CONTEXT_CACHE_SIZE => Overlapped

\* two threads have interleaved inside _get_file_context, both have returned,
\* and the cache holds more than FILE_CONTEXT_CACHE_SIZE entries
C30_CacheOverfull ==
    /\ Overlapped
    /\ \A t \in ThreadIds : ~Inside(t) /\ threads[t].outcome = "returned"
    /\ Len(file_context_cache) > FILE_CONTEXT_CACHE_SIZE

====
